---- MODULE Spec2Model ----
(***************************************************************************)
(* A model of landscape_api/base.py: the schema-driven parameter encoder   *)
(* (the _encode_ methods of _API), API.call, the methods generated by      *)
(* api_factory, the request signer run_query, the error classes and the    *)
(* command line (CommandLine.main and its argument parsers).               *)
(*                                                                         *)
(* A Python str is a sequence of one-character strings; a Python object is *)
(* a record tagged by its kind (field k); a dict of wire parameters is a   *)
(* function from keys (str) to values.                                     *)
(***************************************************************************)
EXTENDS Integers, Sequences, FiniteSets, TLC

VARIABLES
  op,        \* the operation that ran last
  inp,       \* its arguments, and what the environment answered
  out,       \* what it returned or raised
  requests,  \* the requests it handed to the transport
  mapping,   \* the contents of the params dict after run_query
  prev,      \* the run_query before this one: its arguments and request
  schema_now \* the contents of the schema the operation worked on (when
             \* none runs: of the schema of the module)

vars == <<op, inp, out, requests, mapping, prev, schema_now>>

----------------------------------------------------------------------------
(* Bounds of the model.                                                    *)

\* Longest field list of an action or structure.
MaxFields == 2
\* Longest native list / container handed to a list or mapping parameter.
MaxItems == 2
\* Longest comma-separated string handed to a list or mapping parameter.
MaxCsvLen == 3
\* Most caller-chosen parameters in a raw (call_arbitrary) query.
MaxParams == 2
\* The longest name _lowercase_api_name is given, besides the documented ones.
MaxNameLen == 4
\* The most actions a schema of the registry holds.
MaxActions == 2
\* The most error codes the actions of a schema declare.
MaxCodes == 2
\* The longest errors list of a MultiError answer.
MaxSubErrors == 2
\* The longest item of a list written as a comma-separated string.
MaxItemLen == 2

----------------------------------------------------------------------------
(* Text.                                                                   *)

\* The printable ASCII characters in code-point order; Ascii[i] has code 31+i
\* (the grave accent, code 96, is spelled out).
Ascii ==
  <<" ", "!", "\"", "#", "$", "%", "&", "'", "(", ")", "*", "+", ",", "-",
    ".", "/", "0", "1", "2", "3", "4", "5", "6", "7", "8", "9", ":", ";",
    "<", "=", ">", "?", "@", "A", "B", "C", "D", "E", "F", "G", "H", "I",
    "J", "K", "L", "M", "N", "O", "P", "Q", "R", "S", "T", "U", "V", "W",
    "X", "Y", "Z", "[", "\\", "]", "^", "_", "grave", "a", "b", "c", "d", "e",
    "f", "g", "h", "i", "j", "k", "l", "m", "n", "o", "p", "q", "r", "s",
    "t", "u", "v", "w", "x", "y", "z", "{", "|", "}", "~">>

\* ord(c)
OrdTable ==
  [c \in {Ascii[i] : i \in 1..Len(Ascii)} |->
     31 + (CHOOSE i \in 1..Len(Ascii) : Ascii[i] = c)]
Ord(c) == OrdTable[c]

\* chr(n)
Chr(n) == Ascii[n - 31]

HexDigits == <<"0", "1", "2", "3", "4", "5", "6", "7", "8", "9",
               "A", "B", "C", "D", "E", "F">>

Digits == <<"0", "1", "2", "3", "4", "5", "6", "7", "8", "9">>

\* str(n) for a natural number n.
RECURSIVE IntStr(_)
IntStr(n) == IF n < 10 THEN <<Digits[n + 1]>>
             ELSE IntStr(n \div 10) \o <<Digits[(n % 10) + 1]>>

\* s < t for two str, as Python compares them (by code point, then length).
RECURSIVE StrLess(_, _)
StrLess(s, t) ==
  IF t = <<>> THEN FALSE
  ELSE IF s = <<>> THEN TRUE
  ELSE IF Head(s) = Head(t) THEN StrLess(Tail(s), Tail(t))
  ELSE Ord(Head(s)) < Ord(Head(t))

\* str.isspace for the characters of the model.
IsSpace(c) == c = " "

\* s.strip()
RECURSIVE LStrip(_)
LStrip(s) == IF s # <<>> /\ IsSpace(Head(s)) THEN LStrip(Tail(s)) ELSE s

RECURSIVE RStrip(_)
RStrip(s) == IF s # <<>> /\ IsSpace(s[Len(s)])
             THEN RStrip(SubSeq(s, 1, Len(s) - 1)) ELSE s

Strip(s) == RStrip(LStrip(s))

\* s.split(sep) for a one-character separator: the pieces between
\* separators, empty pieces included.
RECURSIVE SplitAcc(_, _, _)
SplitAcc(s, sep, cur) ==
  IF s = <<>> THEN <<cur>>
  ELSE IF Head(s) = sep THEN <<cur>> \o SplitAcc(Tail(s), sep, <<>>)
  ELSE SplitAcc(Tail(s), sep, Append(cur, Head(s)))

Split(s, sep) == SplitAcc(s, sep, <<>>)

\* s.partition(sep): <<before, sep or "", after>>.
RECURSIVE PartitionAcc(_, _, _)
PartitionAcc(s, sep, before) ==
  IF s = <<>> THEN <<before, <<>>, <<>>>>
  ELSE IF Head(s) = sep THEN <<before, <<sep>>, Tail(s)>>
  ELSE PartitionAcc(Tail(s), sep, Append(before, Head(s)))

Partition(s, sep) == PartitionAcc(s, sep, <<>>)

\* The characters urllib.parse.quote never rewrites, and those of safe="~".
Unreserved ==
  {Ascii[i] : i \in 17..26} \cup {Ascii[i] : i \in 34..59}
    \cup {Ascii[i] : i \in 66..91} \cup {"_", ".", "-", "~"}

\* quote(s, safe=safe): every other character becomes %XX (upper-case hex).
RECURSIVE Quote(_, _)
Quote(s, safe) ==
  IF s = <<>> THEN <<>>
  ELSE (IF Head(s) \in Unreserved \cup safe THEN <<Head(s)>>
        ELSE <<"%", HexDigits[(Ord(Head(s)) \div 16) + 1],
                    HexDigits[(Ord(Head(s)) % 16) + 1]>>)
       \o Quote(Tail(s), safe)

\* sep.join(parts)
RECURSIVE Join(_, _)
Join(parts, sep) ==
  IF parts = <<>> THEN <<>>
  ELSE IF Len(parts) = 1 THEN parts[1]
  ELSE parts[1] \o sep \o Join(Tail(parts), sep)

\* The base64 alphabet, and b64encode over a sequence of byte values.
B64Alphabet ==
  <<"A", "B", "C", "D", "E", "F", "G", "H", "I", "J", "K", "L", "M", "N",
    "O", "P", "Q", "R", "S", "T", "U", "V", "W", "X", "Y", "Z", "a", "b",
    "c", "d", "e", "f", "g", "h", "i", "j", "k", "l", "m", "n", "o", "p",
    "q", "r", "s", "t", "u", "v", "w", "x", "y", "z", "0", "1", "2", "3",
    "4", "5", "6", "7", "8", "9", "+", "/">>

RECURSIVE B64Encode(_)
B64Encode(bytes) ==
  IF bytes = <<>> THEN <<>>
  ELSE IF Len(bytes) = 1 THEN
    <<B64Alphabet[(bytes[1] \div 4) + 1],
      B64Alphabet[((bytes[1] % 4) * 16) + 1], "=", "=">>
  ELSE IF Len(bytes) = 2 THEN
    <<B64Alphabet[(bytes[1] \div 4) + 1],
      B64Alphabet[((bytes[1] % 4) * 16) + (bytes[2] \div 16) + 1],
      B64Alphabet[((bytes[2] % 16) * 4) + 1], "=">>
  ELSE
    <<B64Alphabet[(bytes[1] \div 4) + 1],
      B64Alphabet[((bytes[1] % 4) * 16) + (bytes[2] \div 16) + 1],
      B64Alphabet[((bytes[2] % 16) * 4) + (bytes[3] \div 64) + 1],
      B64Alphabet[(bytes[3] % 64) + 1]>>
    \o B64Encode(SubSeq(bytes, 4, Len(bytes)))

\* The bytes of an ASCII str.
AsciiBytes(s) == [i \in 1..Len(s) |-> Ord(s[i])]


----------------------------------------------------------------------------
(* Python objects and wire dictionaries.                                   *)

PyStr(s) == [k |-> "str", s |-> s]
PyBytes(s) == [k |-> "bytes", s |-> s]
PyInt(n) == [k |-> "int", n |-> n]
PyBool(b) == [k |-> "bool", b |-> b]
PyNone == [k |-> "none"]
\* A datetime.date.
PyDate(y, m, d) == [k |-> "date", y |-> y, m |-> m, d |-> d]
PyList(items) == [k |-> "list", items |-> items]
\* A dict, as the sequence of its <<key, value>> pairs in insertion order.
PyDict(pairs) == [k |-> "dict", pairs |-> pairs]

\* The empty dict, a one-entry dict, and d.update(e).
EmptyDict == <<>>
Single(key, value) == [x \in {key} |-> value]
DictUpdate(d, e) ==
  [x \in DOMAIN d \cup DOMAIN e |-> IF x \in DOMAIN e THEN e[x] ELSE d[x]]
DictWithout(d, key) == [x \in DOMAIN d \ {key} |-> d[x]]

\* The result of an encoder: a wire dict, or the exception it raised.
Ok(map) == [tag |-> "ok", map |-> map]
Raise(err, msg) == [tag |-> "err", err |-> err, msg |-> msg]
\* TypeError("Missing parameter <name>") and TypeError("Extra arguments: ...")
MissingParameter(name) ==
  [tag |-> "err", err |-> "TypeError", msg |-> "Missing parameter", name |-> name]
ExtraArguments(left) ==
  [tag |-> "err", err |-> "TypeError", msg |-> "Extra arguments", left |-> left]

Pad2(n) == IF n < 10 THEN <<"0">> \o IntStr(n) ELSE IntStr(n)
Pad4(n) == IF n < 10 THEN <<"0", "0", "0">> \o IntStr(n)
           ELSE IF n < 100 THEN <<"0", "0">> \o IntStr(n)
           ELSE IF n < 1000 THEN <<"0">> \o IntStr(n)
           ELSE IntStr(n)

\* date.isoformat() and date.strftime("%Y-%m-%dT%H:%M:%SZ")
IsoDate(v) == Pad4(v.y) \o <<"-">> \o Pad2(v.m) \o <<"-">> \o Pad2(v.d)
StrfTime(v) == IsoDate(v) \o <<"T", "0", "0", ":", "0", "0", ":", "0", "0", "Z">>

\* repr(v) and str(v)
RECURSIVE PyRepr(_)
RECURSIVE ReprItems(_)
RECURSIVE ReprPairs(_)
PyToStr(v) ==
  CASE v.k = "str" -> v.s
    [] v.k = "int" -> IntStr(v.n)
    [] v.k = "bool" -> IF v.b THEN <<"T", "r", "u", "e">>
                       ELSE <<"F", "a", "l", "s", "e">>
    [] v.k = "none" -> <<"N", "o", "n", "e">>
    [] v.k = "date" -> IsoDate(v)
    [] OTHER -> PyRepr(v)
ReprItems(items) ==
  IF items = <<>> THEN <<>>
  ELSE IF Len(items) = 1 THEN PyRepr(items[1])
  ELSE PyRepr(items[1]) \o <<",", " ">> \o ReprItems(Tail(items))
ReprPairs(pairs) ==
  IF pairs = <<>> THEN <<>>
  ELSE PyRepr(pairs[1][1]) \o <<":", " ">> \o PyRepr(pairs[1][2])
       \o (IF Len(pairs) = 1 THEN <<>>
           ELSE <<",", " ">> \o ReprPairs(Tail(pairs)))
PyRepr(v) ==
  CASE v.k = "str" -> <<"'">> \o v.s \o <<"'">>
    [] v.k = "bytes" -> <<"b", "'">> \o v.s \o <<"'">>
    [] v.k = "list" -> <<"[">> \o ReprItems(v.items) \o <<"]">>
    [] v.k = "dict" -> <<"{">> \o ReprPairs(v.pairs) \o <<"}">>
    [] v.k = "date" ->
         <<"d", "a", "t", "e", "t", "i", "m", "e", ".", "d", "a", "t", "e", "(">>
         \o IntStr(v.y) \o <<",", " ">> \o IntStr(v.m) \o <<",", " ">>
         \o IntStr(v.d) \o <<")">>
    [] OTHER -> PyToStr(v)

\* bool(v)
PyTruth(v) ==
  CASE v.k = "bool" -> v.b
    [] v.k = "int" -> v.n # 0
    [] v.k = "none" -> FALSE
    [] v.k \in {"str", "bytes"} -> v.s # <<>>
    [] v.k = "list" -> v.items # <<>>
    [] v.k = "dict" -> v.pairs # <<>>
    [] OTHER -> TRUE

\* a == b: a bool is the number 0 or 1, containers compare by content
\* (a dict whatever its order), everything else by kind and value.
IsNumber(v) == v.k \in {"int", "bool"}
Number(v) == IF v.k = "bool" THEN (IF v.b THEN 1 ELSE 0) ELSE v.n
RECURSIVE PyEq(_, _)
PyEq(a, b) ==
  IF IsNumber(a) /\ IsNumber(b) THEN Number(a) = Number(b)
  ELSE IF a.k # b.k THEN FALSE
  ELSE IF a.k = "list" THEN
    /\ Len(a.items) = Len(b.items)
    /\ \A i \in 1..Len(a.items) : PyEq(a.items[i], b.items[i])
  ELSE IF a.k = "dict" THEN
    /\ Len(a.pairs) = Len(b.pairs)
    /\ \A i \in 1..Len(a.pairs) : \E j \in 1..Len(b.pairs) :
         PyEq(a.pairs[i][1], b.pairs[j][1]) /\ PyEq(a.pairs[i][2], b.pairs[j][2])
  ELSE a = b

----------------------------------------------------------------------------
(* The files the process can read, by path, with their contents (bytes).   *)

Files == (<<"f">> :> <<104, 105>>) @@ (<<"d", "/", "g">> :> <<104>>)

\* os.path.basename(path)
Basename(path) == LET parts == Split(path, "/") IN parts[Len(parts)]

\* open(value, "rb").read(): the contents, or the exception raised.
ReadFile(value) ==
  IF value.k # "str" THEN Raise("TypeError", "expected str, bytes or os.PathLike object")
  ELSE IF value.s \notin DOMAIN Files THEN Raise("FileNotFoundError", "No such file or directory")
  ELSE [tag |-> "ok", contents |-> Files[value.s]]

----------------------------------------------------------------------------
(* The comma-separated grammars of the command line.                       *)

\* _parse_csv_list_safely: the items it yields.
RECURSIVE ParseCsvListLoop(_, _, _)
ParseCsvListLoop(value, item, escaped) ==
  IF value = <<>> THEN
    LET last == IF escaped THEN Append(item, "\\") ELSE item
    IN  IF last # <<>> THEN <<last>> ELSE <<>>
  ELSE LET c == Head(value) IN
    IF c = "," THEN
      IF escaped THEN ParseCsvListLoop(Tail(value), Append(item, c), FALSE)
      ELSE <<item>> \o ParseCsvListLoop(Tail(value), <<>>, escaped)
    ELSE IF c = "\\" THEN ParseCsvListLoop(Tail(value), item, TRUE)
    ELSE ParseCsvListLoop(Tail(value),
                          (IF escaped THEN Append(item, "\\") ELSE item) \o <<c>>,
                          escaped)

ParseCsvListSafely(value) == ParseCsvListLoop(value, <<>>, FALSE)

\* _parse_csv_mapping_safely: the <<key, value>> pairs it yields, or the
\* ValueError of the first item without "=".
RECURSIVE PartitionItems(_)
PartitionItems(items) ==
  IF items = <<>> THEN [tag |-> "ok", pairs |-> <<>>]
  ELSE LET parts == Partition(items[1], "=") IN
    IF parts[2] = <<>> THEN Raise("ValueError", "invalid key/value pair")
    ELSE LET rest == PartitionItems(Tail(items)) IN
      IF rest.tag = "err" THEN rest
      ELSE [tag |-> "ok", pairs |-> <<<<parts[1], parts[3]>>>> \o rest.pairs]

ParseCsvMappingSafely(value) == PartitionItems(ParseCsvListSafely(value))

----------------------------------------------------------------------------
(* The parameter encoder of _API.                                          *)

\* parameter["type"].replace(" ", "_")
Kind(type) ==
  CASE type = "raw string" -> "raw_string"
    [] type = "unicode line" -> "unicode_line"
    [] type = "unicode title" -> "unicode_title"
    [] OTHER -> type

RECURSIVE EncodeArgument(_, _, _)
RECURSIVE EncodeFieldsLoop(_, _, _, _)
RECURSIVE EncodeListLoop(_, _, _, _, _)
RECURSIVE EncodeMappingLoop(_, _, _, _)

\* _encode_integer, _encode_float, _encode_raw_string, _encode_enum
EncodeInteger(parameter, name, arg) == Ok(Single(name, PyStr(PyToStr(arg))))
EncodeFloat(parameter, name, arg) == Ok(Single(name, PyStr(PyToStr(arg))))
EncodeRawString(parameter, name, value) == Ok(Single(name, PyStr(PyToStr(value))))
EncodeEnum(parameter, name, value) == Ok(Single(name, PyStr(PyToStr(value))))

\* _encode_boolean
EncodeBoolean(parameter, name, value) ==
  Ok(Single(name, PyStr(IF PyTruth(value) THEN <<"t", "r", "u", "e">>
                        ELSE <<"f", "a", "l", "s", "e">>)))

\* _encode_date
EncodeDate(parameter, name, value) ==
  IF value.k = "str" THEN Ok(Single(name, value))
  ELSE IF value.k = "date" THEN Ok(Single(name, PyStr(StrfTime(value))))
  ELSE Raise("AttributeError", "object has no attribute 'strftime'")

\* str(value, "utf-8"): decodes a bytes object, refuses everything else.
DecodeUtf8(value) ==
  IF value.k = "bytes" THEN [tag |-> "ok", s |-> value.s]
  ELSE IF value.k = "str" THEN Raise("TypeError", "decoding str is not supported")
  ELSE Raise("TypeError", "decoding to str: need a bytes-like object")

\* _encode_unicode (also _encode_unicode_line, _encode_unicode_title)
EncodeUnicode(parameter, name, value) ==
  IF value.k = "date" THEN EncodeDate(parameter, name, value)
  ELSE LET text == DecodeUtf8(value) IN
    IF text.tag = "err" THEN text ELSE Ok(Single(name, PyStr(text.s)))

\* _encode_file
EncodeFile(parameter, name, value) ==
  LET file == ReadFile(value) IN
  IF file.tag = "err" THEN file
  ELSE LET encoded_contents == B64Encode(file.contents)
           payload == Basename(value.s) \o <<"$", "$">> \o encoded_contents
       IN  Ok(Single(name, PyBytes(payload)))

\* _encode_data: b64encode returns bytes, and bytes has no encode method.
EncodeData(parameter, name, value) ==
  LET file == ReadFile(value) IN
  IF file.tag = "err" THEN file
  ELSE Raise("AttributeError", "'bytes' object has no attribute 'encode'")

\* _encode_list
ListItems(sequence) ==
  IF sequence.k = "str"
  THEN LET pieces == Split(sequence.s, ",") IN
       [tag |-> "ok",
        items |-> [i \in 1..Len(pieces) |-> PyStr(Strip(pieces[i]))]]
  ELSE IF sequence.k = "list" THEN [tag |-> "ok", items |-> sequence.items]
  ELSE Raise("TypeError", "object is not iterable")

EncodeListLoop(parameter, name, items, i, result) ==
  IF i > Len(items) THEN Ok(result)
  ELSE LET encoded_item ==
             EncodeArgument(parameter.item, name \o <<".">> \o IntStr(i), items[i])
       IN  IF encoded_item.tag = "err" THEN encoded_item
           ELSE EncodeListLoop(parameter, name, items, i + 1,
                               DictUpdate(result, encoded_item.map))

EncodeList(parameter, name, sequence) ==
  LET seq == ListItems(sequence) IN
  IF seq.tag = "err" THEN seq
  ELSE EncodeListLoop(parameter, name, seq.items, 1, EmptyDict)

\* The dict {k.strip(): v.strip() for k, v in pairs}, as its keys in
\* insertion order (the values are not needed: iterating a dict gives keys).
RECURSIVE StrippedKeys(_, _)
StrippedKeys(pairs, seen) ==
  IF pairs = <<>> THEN <<>>
  ELSE LET key == Strip(pairs[1][1]) IN
    IF key \in seen THEN StrippedKeys(Tail(pairs), seen)
    ELSE <<key>> \o StrippedKeys(Tail(pairs), seen \cup {key})

\* What "for key, value in items" iterates over in _encode_mapping.
MappingItems(items) ==
  IF items.k = "str" THEN
    LET parsed == ParseCsvMappingSafely(items.s) IN
    IF parsed.tag = "err" THEN parsed
    ELSE LET keys == StrippedKeys(parsed.pairs, {}) IN
      \* each key of the dict is unpacked into two targets
      IF \E i \in 1..Len(keys) : Len(keys[i]) # 2
      THEN Raise("ValueError", "wrong number of values to unpack")
      ELSE [tag |-> "ok",
            items |-> [i \in 1..Len(keys) |->
                         <<PyStr(<<keys[i][1]>>), PyStr(<<keys[i][2]>>)>>]]
  ELSE IF items.k = "dict" THEN [tag |-> "ok", items |-> items.pairs]
  ELSE Raise("TypeError", "cannot unpack")

KeyName == <<"<", "k", "e", "y", ">">>

\* _encode_mapping
EncodeMappingLoop(parameter, name, items, result) ==
  IF items = <<>> THEN Ok(result)
  ELSE LET key == EncodeArgument(parameter.key, KeyName, items[1][1]) IN
    IF key.tag = "err" THEN key
    ELSE IF KeyName \notin DOMAIN key.map THEN Raise("KeyError", "<key>")
    ELSE LET subname == name \o <<".">> \o PyToStr(key.map[KeyName])
             encoded == EncodeArgument(parameter.value, subname, items[1][2])
         IN  IF encoded.tag = "err" THEN encoded
             ELSE EncodeMappingLoop(parameter, name, Tail(items),
                                    DictUpdate(result, encoded.map))

EncodeMapping(parameter, name, items) ==
  LET pairs == MappingItems(items) IN
  IF pairs.tag = "err" THEN pairs
  ELSE EncodeMappingLoop(parameter, name, pairs.items, EmptyDict)

\* dictionary.copy() as the encoder's working argument set: name -> value.
AsArguments(dictionary) ==
  [n \in {dictionary.pairs[i][1].s : i \in 1..Len(dictionary.pairs)} |->
     LET i == CHOOSE j \in 1..Len(dictionary.pairs) : dictionary.pairs[j][1].s = n
     IN  dictionary.pairs[i][2]]

\* _encode_structure
EncodeStructure(parameter, name, dictionary) ==
  IF dictionary.k # "dict" THEN Raise("AttributeError", "object has no attribute 'copy'")
  ELSE EncodeFieldsLoop(parameter.fields, AsArguments(dictionary),
                        name \o <<".">>, EmptyDict)

\* A default rule that holds for truthy defaults only.
IsDefaultWhenTruthy(parameter, value) ==
  parameter.optional /\ PyTruth(parameter.default) /\ PyEq(value, parameter.default)

\* parameter.get("optional") and value == parameter.get("default")
IsDefault(parameter, value) ==
  parameter.optional /\ PyEq(value, parameter.default)

\* _encode_argument
EncodeArgument(parameter, name, value) ==
  IF IsDefault(parameter, value) THEN Ok(EmptyDict)
  ELSE LET kind == Kind(parameter.type) IN
    CASE kind = "integer" -> EncodeInteger(parameter, name, value)
      [] kind = "float" -> EncodeFloat(parameter, name, value)
      [] kind = "raw_string" -> EncodeRawString(parameter, name, value)
      [] kind = "enum" -> EncodeEnum(parameter, name, value)
      [] kind \in {"unicode", "unicode_line", "unicode_title"} ->
           EncodeUnicode(parameter, name, value)
      [] kind = "file" -> EncodeFile(parameter, name, value)
      [] kind = "boolean" -> EncodeBoolean(parameter, name, value)
      [] kind = "date" -> EncodeDate(parameter, name, value)
      [] kind = "list" -> EncodeList(parameter, name, value)
      [] kind = "mapping" -> EncodeMapping(parameter, name, value)
      [] kind = "data" -> EncodeData(parameter, name, value)
      [] kind = "structure" -> EncodeStructure(parameter, name, value)
      [] OTHER -> Raise("AttributeError", "no such encoder")

\* A loop that takes an absent field for an optional one, whatever it
\* declares.
EncodeFieldsLoopSkippingAbsent(fields, arguments, prefix, result) ==
  IF fields = <<>> THEN
    IF DOMAIN arguments # {} THEN ExtraArguments(arguments) ELSE Ok(result)
  ELSE IF fields[1][1] \notin DOMAIN arguments
  THEN EncodeFieldsLoop(Tail(fields), arguments, prefix, result)
  ELSE LET encoded_item == EncodeArgument(fields[1][2], prefix \o fields[1][1],
                                          arguments[fields[1][1]])
       IN  IF encoded_item.tag = "err" THEN encoded_item
           ELSE EncodeFieldsLoop(Tail(fields), DictWithout(arguments, fields[1][1]),
                                 prefix, DictUpdate(result, encoded_item.map))

\* A loop that reads the arguments without popping them.
EncodeFieldsLoopNotPopping(fields, arguments, prefix, result) ==
  IF fields = <<>> THEN
    IF DOMAIN arguments # {} THEN ExtraArguments(arguments) ELSE Ok(result)
  ELSE IF fields[1][1] \notin DOMAIN arguments
  THEN IF ~fields[1][2].optional THEN MissingParameter(fields[1][1])
       ELSE EncodeFieldsLoop(Tail(fields), arguments, prefix, result)
  ELSE LET encoded_item == EncodeArgument(fields[1][2], prefix \o fields[1][1],
                                          arguments[fields[1][1]])
       IN  IF encoded_item.tag = "err" THEN encoded_item
           ELSE EncodeFieldsLoop(Tail(fields), arguments, prefix,
                                 DictUpdate(result, encoded_item.map))

\* The loop of _encode_struct_fields over the declared fields, then the
\* check for arguments nobody consumed.
EncodeFieldsLoop(fields, arguments, prefix, result) ==
  IF fields = <<>> THEN
    IF DOMAIN arguments # {} THEN ExtraArguments(arguments) ELSE Ok(result)
  ELSE LET parameter_name == fields[1][1]
           parameter_description == fields[1][2]
       IN
    IF parameter_name \notin DOMAIN arguments THEN
      IF ~parameter_description.optional THEN MissingParameter(parameter_name)
      ELSE EncodeFieldsLoop(Tail(fields), arguments, prefix, result)
    ELSE LET value == arguments[parameter_name]
             encoded_item == EncodeArgument(parameter_description,
                                            prefix \o parameter_name, value)
         IN  IF encoded_item.tag = "err" THEN encoded_item
             ELSE EncodeFieldsLoop(Tail(fields),
                                   DictWithout(arguments, parameter_name),
                                   prefix, DictUpdate(result, encoded_item.map))

\* _encode_struct_fields
EncodeStructFields(fields, arguments, prefix) ==
  EncodeFieldsLoop(fields, arguments, prefix, EmptyDict)

----------------------------------------------------------------------------
(* URLs.                                                                   *)

IsUpper(c) == \E i \in 34..59 : Ascii[i] = c
IsDigit(c) == \E i \in 17..26 : Ascii[i] = c

\* s.lower()
Lower(s) == [i \in 1..Len(s) |-> IF IsUpper(s[i]) THEN Chr(Ord(s[i]) + 32) ELSE s[i]]

StartsWith(s, prefix) ==
  Len(s) >= Len(prefix) /\ SubSeq(s, 1, Len(prefix)) = prefix
EndsWith(s, suffix) ==
  Len(s) >= Len(suffix) /\ SubSeq(s, Len(s) - Len(suffix) + 1, Len(s)) = suffix

\* int(text): the number, or -1 for the ValueError of a text that is not
\* made of digits.
RECURSIVE DigitsValue(_, _)
DigitsValue(text, acc) ==
  IF text = <<>> THEN acc
  ELSE DigitsValue(Tail(text), (acc * 10) + (Ord(Head(text)) - 48))

ToInt(text) ==
  IF text # <<>> /\ \A i \in 1..Len(text) : IsDigit(text[i])
  THEN DigitsValue(text, 0) ELSE -1

\* The index of the first character of s at or after i that is in stop, or
\* Len(s) + 1.
RECURSIVE FindFirst(_, _, _)
FindFirst(s, i, stop) ==
  IF i > Len(s) \/ s[i] \in stop THEN i ELSE FindFirst(s, i + 1, stop)

\* A parse that takes every scheme.
AnyScheme(url) == TRUE

\* url.lower().startswith(("http://", "https://"))
StartsWithHttp(url) ==
  LET lowurl == Lower(url) IN
  \/ StartsWith(lowurl, <<"h", "t", "t", "p", ":", "/", "/">>)
  \/ StartsWith(lowurl, <<"h", "t", "t", "p", "s", ":", "/", "/">>)

\* parse(url): <<host, port, path>>, port -1 standing for None.
Parse(url) ==
  IF ~StartsWithHttp(url)
  THEN Raise("SyntaxError", "URL must start with 'http://' or 'https://'")
  ELSE
    LET stripped == Strip(url)
        start == FindFirst(stripped, 1, {"/"}) + 2
        stop == FindFirst(stripped, start, {"/", "?", "#"})
        netloc == SubSeq(stripped, start, stop - 1)
        path == SubSeq(stripped, stop, Len(stripped))
        parts == Split(netloc, ":")
    IN  IF Len(parts) = 1
        THEN [tag |-> "ok", host |-> netloc, port |-> -1, path |-> path]
        ELSE IF Len(parts) # 2
        THEN Raise("ValueError", "too many values to unpack")
        ELSE [tag |-> "ok", host |-> parts[1], port |-> ToInt(parts[2]),
              path |-> path]

----------------------------------------------------------------------------
(* The error classes: errors = _build_exceptions(_schema), then the        *)
(* built-in classes added under the names given to add_error.              *)

\* _get_error_code_name
\* A normalisation that appends "Error" whatever the code ends in.
GetErrorCodeNameAppending(error_code) == error_code \o <<"E", "r", "r", "o", "r">>

GetErrorCodeName(error_code) ==
  IF EndsWith(error_code, <<"E", "r", "r", "o", "r">>) THEN error_code
  ELSE error_code \o <<"E", "r", "r", "o", "r">>

\* An exception class: its name, and where it comes from (the classes of
\* the module itself, the built-in API errors, those built from a schema);
\* NoClass is the None of a failed lookup.
Class(name, kind) == [name |-> name, kind |-> kind]
NoClass == Class(<<>>, "none")
HTTPErrorClass == Class(<<"H", "T", "T", "P", "E", "r", "r", "o", "r">>, "base")
APIErrorClass == Class(<<"A", "P", "I", "E", "r", "r", "o", "r">>, "base")
MultiErrorClass == Class(<<"M", "u", "l", "t", "i", "E", "r", "r", "o", "r">>, "builtin")

\* The built-in classes, under the names errors.add_error is given.
BuiltinErrors ==
  (<<"M", "u", "l", "t", "i", "E", "r", "r", "o", "r">> :> MultiErrorClass)
  @@ (<<"U", "n", "a", "u", "t", "h", "o", "r", "i", "s", "e", "d">> :> Class(<<"U", "n", "a", "u", "t", "h", "o", "r", "i", "s", "e", "d", "E", "r", "r", "o", "r">>, "builtin"))
  @@ (<<"S", "i", "g", "n", "a", "t", "u", "r", "e", "D", "o", "e", "s", "N", "o", "t", "M", "a", "t", "c", "h", "E", "r", "r", "o", "r">> :> Class(<<"S", "i", "g", "n", "a", "t", "u", "r", "e", "D", "o", "e", "s", "N", "o", "t", "M", "a", "t", "c", "h", "E", "r", "r", "o", "r">>, "builtin"))
  @@ (<<"A", "u", "t", "h", "F", "a", "i", "l", "u", "r", "e", "E", "r", "r", "o", "r">> :> Class(<<"A", "u", "t", "h", "F", "a", "i", "l", "u", "r", "e", "E", "r", "r", "o", "r">>, "builtin"))
  @@ (<<"I", "n", "v", "a", "l", "i", "d", "C", "r", "e", "d", "e", "n", "t", "i", "a", "l", "s", "E", "r", "r", "o", "r">> :> Class(<<"I", "n", "v", "a", "l", "i", "d", "C", "r", "e", "d", "e", "n", "t", "i", "a", "l", "s", "E", "r", "r", "o", "r">>, "builtin"))

\* _build_exceptions over the error codes of a schema: one class per
\* exception name.
BuildExceptions(codes) ==
  [n \in {GetErrorCodeName(c) : c \in codes} |-> Class(n, "schema")]

\* The errors container of the module for a schema with these codes: the
\* classes built from the schema, then the built-in ones set over them.
ErrorsOf(codes) == BuiltinErrors @@ BuildExceptions(codes)

\* errors.lookup_error(name): the class, or None.
LookupError(errors, name) ==
  IF name \in DOMAIN errors THEN errors[name] ELSE NoClass

----------------------------------------------------------------------------
(* Program constants.                                                      *)

LATEST_VERSION == <<"2", "0", "1", "1", "-", "0", "8", "-", "0", "1">>
FUTURE_VERSION == <<"2", "0", "1", "3", "-", "1", "1", "-", "0", "4">>

----------------------------------------------------------------------------
(* The schema: action name -> version -> action definition.                *)

Required(name, type) == [name |-> name, type |-> type, optional |-> FALSE]
Optional(name, type, default) ==
  [name |-> name, type |-> type, optional |-> TRUE, default |-> default]

Schema ==
  (<<"G", "e", "t">> :> (LATEST_VERSION :>
     [doc |-> "Get things.",
      parameters |-> <<Required(<<"a">>, "integer"),
                       Optional(<<"b">>, "boolean", PyBool(FALSE))>>,
      errors |-> <<<<"U", "n", "k", "n", "o", "w", "n", "C", "o", "m", "p", "u", "t", "e", "r">>>>]))
  @@ (<<"P", "u", "t">> :> (LATEST_VERSION :>
     [doc |-> "Put a thing.",
      parameters |-> <<Required(<<"u">>, "unicode"),
                       Optional(<<"n">>, "integer", PyInt(0))>>,
      errors |-> <<<<"B", "u", "s", "y", "E", "r", "r", "o", "r">>>>]))
  @@ (<<"T", "a", "g">> :> [v \in {LATEST_VERSION, FUTURE_VERSION} |->
     [doc |-> "Tag things.",
      parameters |-> <<[name |-> <<"t">>, type |-> "list", optional |-> FALSE,
                        item |-> Required(<<>>, "raw string")],
                       Optional(<<"d">>, "date", PyNone)>>,
      errors |-> <<>>]])
  @@ (<<"A", "d", "d">> :> (LATEST_VERSION :>
     [doc |-> "Add a file.",
      parameters |-> <<Required(<<"f">>, "file")>>,
      errors |-> <<>>]))
  @@ (<<"N", "e", "w">> :> (FUTURE_VERSION :>
     [doc |-> "A newer thing.",
      parameters |-> <<Optional(<<"q">>, "raw string", PyStr(<<>>))>>,
      errors |-> <<<<"U", "n", "k", "n", "o", "w", "n", "C", "o", "m", "p", "u", "t", "e", "r">>>>]))

\* The error codes the actions of the schema declare, and the errors
\* container built at import: errors = _build_exceptions(_schema).
SchemaErrorCodes ==
  {Schema[a][v].errors[i] :
     <<a, v, i>> \in {t \in (DOMAIN Schema) \X {LATEST_VERSION, FUTURE_VERSION} \X (1..2) :
                        /\ t[2] \in DOMAIN Schema[t[1]]
                        /\ t[3] \in 1..Len(Schema[t[1]][t[2]].errors)}}

ErrorClasses == ErrorsOf(SchemaErrorCodes)

----------------------------------------------------------------------------
(* Local names: _lowercase_api_name.                                       *)

IsLower(c) == \E i \in 66..91 : Ascii[i] = c

\* The index of the last character of the run of lower-case letters that
\* starts at i.
RECURSIVE LowerRunEnd(_, _)
LowerRunEnd(s, i) ==
  IF i < Len(s) /\ IsLower(s[i + 1]) THEN LowerRunEnd(s, i + 1) ELSE i

\* re.sub("(.)([A-Z][a-z]+)", r"\1_\2", s): matches are found from the
\* left and do not overlap.
RECURSIVE SubBeforeWord(_)
SubBeforeWord(s) ==
  IF Len(s) < 3 THEN s
  ELSE IF IsUpper(s[2]) /\ IsLower(s[3])
  THEN <<s[1], "_">> \o SubSeq(s, 2, LowerRunEnd(s, 3))
         \o SubBeforeWord(SubSeq(s, LowerRunEnd(s, 3) + 1, Len(s)))
  ELSE <<s[1]>> \o SubBeforeWord(Tail(s))

\* The second substitution with a pattern that leaves the digits out.
RECURSIVE SubAfterLowerOnly(_)
SubAfterLowerOnly(s) ==
  IF Len(s) < 2 THEN s
  ELSE IF IsLower(s[1]) /\ IsUpper(s[2])
  THEN <<s[1], "_", s[2]>> \o SubAfterLowerOnly(SubSeq(s, 3, Len(s)))
  ELSE <<s[1]>> \o SubAfterLowerOnly(Tail(s))

\* re.sub("([a-z0-9])([A-Z])", r"\1_\2", s)
RECURSIVE SubAfterLower(_)
SubAfterLower(s) ==
  IF Len(s) < 2 THEN s
  ELSE IF (IsLower(s[1]) \/ IsDigit(s[1])) /\ IsUpper(s[2])
  THEN <<s[1], "_", s[2]>> \o SubAfterLower(SubSeq(s, 3, Len(s)))
  ELSE <<s[1]>> \o SubAfterLower(Tail(s))

\* _lowercase_api_name
LowercaseApiName(name) == Lower(SubAfterLower(SubBeforeWord(name)))

----------------------------------------------------------------------------
(* The registry: api_factory and CommandLine.get_actions.  A schema is the *)
(* sequence of its entries, in the order the dict holds them; an entry is  *)
(* an action name and its definitions per version.                         *)

\* The attributes the class made from _API has before the generated
\* methods are set, as far as a local name can hit them.
ExistingAttributes ==
  {<<"c", "a", "l", "l">>, <<"r", "u", "n", "_", "q", "u", "e", "r", "y">>, <<"c", "a", "l", "l", "_", "a", "r", "b", "i", "t", "r", "a", "r", "y">>, <<"v", "e", "r", "s", "i", "o", "n">>}

\* _get_action_callers: local name -> the action its caller calls, the
\* actions taken in schema order; a later action replaces an earlier one of
\* the same local name.
RECURSIVE GetActionCallers(_, _, _)
GetActionCallers(schema, version, actions) ==
  IF schema = <<>> THEN actions
  ELSE IF version \notin DOMAIN schema[1].versions
  THEN GetActionCallers(Tail(schema), version, actions)
  ELSE GetActionCallers(Tail(schema), version,
         DictUpdate(actions, Single(LowercaseApiName(schema[1].name), schema[1].name)))

\* api_factory(schema, version): the class, as its version and the action
\* behind each generated method, or the RuntimeError of a method that
\* already exists.
ApiFactory(schema, version) ==
  LET actions == GetActionCallers(schema, version, EmptyDict) IN
  IF \E k \in DOMAIN actions : k \in ExistingAttributes
  THEN Raise("RuntimeError", "method already exists")
  ELSE [tag |-> "ok", version |-> version, methods |-> actions]

\* API.overridden_apis and API.extra_actions
OverriddenApis ==
  <<"I", "m", "p", "o", "r", "t", "G", "P", "G", "K", "e", "y">> :>
    [method |-> <<"i", "m", "p", "o", "r", "t", "_", "g", "p", "g", "_", "k", "e", "y", "_", "f", "r", "o", "m", "_", "f", "i", "l", "e">>,
     replace_args |-> (<<"m", "a", "t", "e", "r", "i", "a", "l">> :> <<"f", "i", "l", "e", "n", "a", "m", "e">>)]

ExtraActions ==
  <<[name |-> <<"s", "s", "h">>, method_name |-> <<"s", "s", "h">>,
     required_args |-> <<<<"q", "u", "e", "r", "y">>>>, optional_args |-> <<<<"u", "s", "e", "r">>>>]>>

\* method_name.replace("_", "-")
Dashed(s) == [i \in 1..Len(s) |-> IF s[i] = "_" THEN "-" ELSE s[i]]

\* _get_action_from_schema; overridden_method_name is <<>> for None
GetActionFromSchema(name, schema_action, overridden_method_name) ==
  LET method_name == LowercaseApiName(name)
      req_args == SelectSeq(schema_action.parameters, LAMBDA x : ~x.optional)
      opt_args == SelectSeq(schema_action.parameters, LAMBDA x : x.optional)
  IN  [name |-> Dashed(method_name),
       method_name |-> IF overridden_method_name # <<>>
                       THEN overridden_method_name ELSE method_name,
       required_args |-> [i \in 1..Len(req_args) |-> req_args[i].name],
       optional_args |-> [i \in 1..Len(opt_args) |-> opt_args[i].name]]

\* The first loop of get_actions: the actions of the version that are not
\* overridden.
RECURSIVE SchemaActions(_, _)
SchemaActions(schema, version) ==
  IF schema = <<>> THEN <<>>
  ELSE IF schema[1].name \in DOMAIN OverriddenApis
          \/ version \notin DOMAIN schema[1].versions
  THEN SchemaActions(Tail(schema), version)
  ELSE <<GetActionFromSchema(schema[1].name, schema[1].versions[version], <<>>)>>
         \o SchemaActions(Tail(schema), version)

\* The parameters of an overridden action, the replaced ones renamed.
ReplaceArgs(parameters, replace_args) ==
  [i \in 1..Len(parameters) |->
     IF parameters[i].name \in DOMAIN replace_args
     THEN [name |-> replace_args[parameters[i].name], type |-> "unicode",
           optional |-> FALSE]
     ELSE parameters[i]]

\* The second loop of get_actions, over the overridden actions: a sequence
\* of actions, or the KeyError of schema[action_name][version].
RECURSIVE OverriddenActions(_, _, _)
OverriddenActions(names, schema, version) ==
  IF names = {} THEN Ok(<<>>)
  ELSE
    LET action_name == CHOOSE n \in names : TRUE
        rest == OverriddenActions(names \ {action_name}, schema, version)
        found == {i \in 1..Len(schema) : schema[i].name = action_name}
    IN  IF found = {} THEN rest
        ELSE LET handlers == schema[CHOOSE i \in found : TRUE].versions IN
             IF version \notin DOMAIN handlers THEN Raise("KeyError", "version")
             ELSE IF rest.tag = "err" THEN rest
             ELSE Ok(<<GetActionFromSchema(
                         action_name,
                         [handlers[version] EXCEPT
                            !.parameters = ReplaceArgs(@, OverriddenApis[action_name].replace_args)],
                         OverriddenApis[action_name].method)>> \o rest.map)

\* overridden_schema = schema[action_name][version], without the copy.
SameObject(x) == [contents |-> x, shared |-> TRUE]

\* copy.deepcopy(x): an object of its own with the contents of x; what is
\* written to it is not written to x.
DeepCopy(x) == [contents |-> x, shared |-> FALSE]

\* The contents of the schema after the second loop of get_actions, which
\* writes the replaced parameters to overridden_schema (no override of the
\* class has a doc); the loop ends at the KeyError of a missing version.
RECURSIVE SchemaAfterOverrides(_, _, _)
SchemaAfterOverrides(names, schema, version) ==
  IF names = {} THEN schema
  ELSE
    LET action_name == CHOOSE n \in names : TRUE
        found == {i \in 1..Len(schema) : schema[i].name = action_name}
        entry == CHOOSE i \in found : TRUE
    IN  IF found = {} THEN SchemaAfterOverrides(names \ {action_name}, schema, version)
        ELSE IF version \notin DOMAIN schema[entry].versions THEN schema
        ELSE LET overridden_schema == DeepCopy(schema[entry].versions[version])
                 written == [overridden_schema.contents EXCEPT
                               !.parameters = ReplaceArgs(@, OverriddenApis[action_name].replace_args)]
             IN  SchemaAfterOverrides(
                   names \ {action_name},
                   IF overridden_schema.shared
                   THEN [schema EXCEPT ![entry].versions[version] = written]
                   ELSE schema,
                   version)

\* The contents of the schema get_actions was handed, after the call: the
\* first loop and _get_action_from_schema only read it.
SchemaAfterGetActions(schema, version) ==
  SchemaAfterOverrides(DOMAIN OverriddenApis, schema, version)

\* The dict the items are the items of.
SchemaOf(items) ==
  [name \in {items[i].name : i \in 1..Len(items)} |->
     items[CHOOSE i \in 1..Len(items) : items[i].name = name].versions]

\* sorted(actions): by name, then method name.
RECURSIVE SortedActions(_)
SortedActions(actions) ==
  IF actions = <<>> THEN <<>>
  ELSE LET before(a, b) == \/ StrLess(a.name, b.name)
                           \/ a.name = b.name /\ StrLess(a.method_name, b.method_name)
           least == CHOOSE i \in 1..Len(actions) :
                      /\ \A j \in 1..Len(actions) : ~before(actions[j], actions[i])
                      /\ \A j \in 1..(i - 1) : before(actions[i], actions[j])
           others == [j \in 1..(Len(actions) - 1) |->
                        IF j < least THEN actions[j] ELSE actions[j + 1]]
       IN  <<actions[least]>> \o SortedActions(others)

\* CommandLine.get_actions(schema, version)
GetActions(schema, version) ==
  LET overridden == OverriddenActions(DOMAIN OverriddenApis, schema, version) IN
  IF overridden.tag = "err" THEN overridden
  ELSE [tag |-> "ok",
        actions |-> SortedActions(SchemaActions(schema, version)
                                  \o overridden.map \o ExtraActions)]

----------------------------------------------------------------------------
(* run_query: sign the request and send it.                                *)

\* The fields with a timestamp read again, later than the call's.
FixedFieldsSecondReading(access_key, action, timestamp, version) ==
  (<<"a", "c", "c", "e", "s", "s", "_", "k", "e", "y", "_", "i", "d">> :> PyStr(access_key))
  @@ (<<"a", "c", "t", "i", "o", "n">> :> PyStr(action))
  @@ (<<"s", "i", "g", "n", "a", "t", "u", "r", "e", "_", "v", "e", "r", "s", "i", "o", "n">> :> PyStr(<<"2">>))
  @@ (<<"s", "i", "g", "n", "a", "t", "u", "r", "e", "_", "m", "e", "t", "h", "o", "d">> :> PyStr(<<"H", "m", "a", "c", "S", "H", "A", "2", "5", "6">>))
  @@ (<<"t", "i", "m", "e", "s", "t", "a", "m", "p">> :> PyStr(Append(timestamp, "+")))
  @@ (<<"v", "e", "r", "s", "i", "o", "n">> :> PyStr(version))

\* The six fields run_query writes into params.
FixedFields(access_key, action, timestamp, version) ==
  (<<"a", "c", "c", "e", "s", "s", "_", "k", "e", "y", "_", "i", "d">> :> PyStr(access_key))
  @@ (<<"a", "c", "t", "i", "o", "n">> :> PyStr(action))
  @@ (<<"s", "i", "g", "n", "a", "t", "u", "r", "e", "_", "v", "e", "r", "s", "i", "o", "n">> :> PyStr(<<"2">>))
  @@ (<<"s", "i", "g", "n", "a", "t", "u", "r", "e", "_", "m", "e", "t", "h", "o", "d">> :> PyStr(<<"H", "m", "a", "c", "S", "H", "A", "2", "5", "6">>))
  @@ (<<"t", "i", "m", "e", "s", "t", "a", "m", "p">> :> PyStr(timestamp))
  @@ (<<"v", "e", "r", "s", "i", "o", "n">> :> PyStr(version))

\* params.update({...}) where the keys the caller set are kept.
MergeKeepingCaller(params, fixed) == DictUpdate(fixed, params)

\* params.update({...}): the fixed fields are written over the params.
MergeFixedFields(params, fixed) == DictUpdate(params, fixed)

\* The keys in the order of their percent-encoded forms.
RECURSIVE SortedByEncodedKey(_)
SortedByEncodedKey(keys) ==
  IF keys = {} THEN <<>>
  ELSE LET least == CHOOSE x \in keys :
                      \A y \in keys : ~StrLess(Quote(y, {"~"}), Quote(x, {"~"}))
       IN  <<least>> \o SortedByEncodedKey(keys \ {least})

\* sorted(keys)
RECURSIVE SortedKeys(_)
SortedKeys(keys) ==
  IF keys = {} THEN <<>>
  ELSE LET least == CHOOSE x \in keys : \A y \in keys : ~StrLess(y, x)
       IN  <<least>> \o SortedKeys(keys \ {least})

\* "&".join("%s=%s" % (quote(key, safe="~"), quote(value, safe="~"))
\*          for key, value in sorted(params.items()))
SignedParams(params) ==
  LET keys == SortedKeys(DOMAIN params) IN
  Join([i \in 1..Len(keys) |->
          Quote(keys[i], {"~"}) \o <<"=">> \o Quote(params[keys[i]].s, {"~"})],
       <<"&">>)

\* b64encode(hmac.new(secret_key, to_sign, sha256).digest()): the digest is
\* not computed; the signature is the pair it is a function of.
Signature(secret_key, to_sign) == [hmac_sha256 |-> <<secret_key, to_sign>>]

\* json.loads for the response texts of the model: "[]" is the empty list,
\* any other text is not JSON.
JsonLoads(text) ==
  IF text = <<"[", "]">> THEN [tag |-> "ok", result |-> PyList(<<>>)]
  ELSE Raise("JSONDecodeError", "Expecting value")

\* The body of an answer, read as JSON: the keys it holds among "error",
\* "message" and "errors" and their values.  A body that is no JSON object,
\* and the empty object, hold none.
Data(has_error, error, has_message, has_errors, errors) ==
  [has_error |-> has_error, error |-> error, has_message |-> has_message,
   has_errors |-> has_errors, errors |-> errors]
NoData == Data(FALSE, PyNone, FALSE, FALSE, <<>>)

\* HTTPError.__init__(code, message, message_data) for a class without an
\* __init__ of its own: the exception, or the KeyError of a message_data
\* that lacks "error" or "message".
HttpError(class, code, message_data) ==
  IF message_data = NoData
  THEN [tag |-> "err", err |-> "HTTPError", class |-> class, code |-> code,
        error_code |-> PyNone]
  ELSE IF ~message_data.has_error THEN Raise("KeyError", "error")
  ELSE IF ~message_data.has_message THEN Raise("KeyError", "message")
  ELSE [tag |-> "err", err |-> "HTTPError", class |-> class, code |-> code,
        error_code |-> message_data.error]

\* The body of the loop of MultiError.__init__: the exception made for one
\* entry of the errors list.
SubError(errors, code, sub_error) ==
  IF sub_error.has_error /\ sub_error.error # PyNone
  THEN LET error_class == LookupError(errors, GetErrorCodeName(sub_error.error.s)) IN
       IF error_class = MultiErrorClass
       THEN Raise("TypeError", "unexpected keyword argument 'message_data'")
       ELSE IF error_class # NoClass THEN HttpError(error_class, code, sub_error)
       ELSE HttpError(APIErrorClass, code, sub_error)
  ELSE HttpError(APIErrorClass, code, sub_error)

\* error_class(e.code, e.message); for MultiError its __init__, which
\* stops at the first entry whose exception cannot be made.
MakeError(errors, class, response) ==
  IF class = MultiErrorClass
  THEN LET self == HttpError(class, response.status, response.data)
           subs == [i \in 1..Len(response.data.errors) |->
                      SubError(errors, response.status, response.data.errors[i])]
           failed == {i \in 1..Len(subs) : subs[i].err # "HTTPError"}
       IN  IF self.err # "HTTPError" THEN self
           ELSE IF ~response.data.has_errors THEN Raise("KeyError", "errors")
           ELSE IF failed # {}
           THEN subs[CHOOSE i \in failed : \A j \in failed : i <= j]
           ELSE [tag |-> "err", err |-> "HTTPError", class |-> class,
                 code |-> response.status, error_code |-> response.data.error,
                 errors |-> subs]
  ELSE HttpError(class, response.status, response.data)

\* A fetch that posts again when the answer is not a 2xx one.
FetchRetrying(request, response) ==
  IF response.ok
  THEN [requests |-> <<request>>, out |-> [tag |-> "ok", result |-> response.text]]
  ELSE [requests |-> <<request, request>>,
        out |-> HttpError(HTTPErrorClass, response.status, response.data)]

\* fetch: one post; the text of the answer, or HTTPError(status, text).
Fetch(request, response) ==
  [requests |-> <<request>>,
   out |-> IF response.ok THEN [tag |-> "ok", result |-> response.text]
           ELSE HttpError(HTTPErrorClass, response.status, response.data)]

\* The except clause of run_query, for what fetch returned or raised.
RaiseHttpError(errors, e, response) ==
  IF e.tag = "ok" \/ e.err # "HTTPError" THEN e
  ELSE IF e.error_code # PyNone
          /\ LookupError(errors, GetErrorCodeName(e.error_code.s)) # NoClass
  THEN MakeError(errors, LookupError(errors, GetErrorCodeName(e.error_code.s)), response)
  ELSE e

\* A signed host that leaves the port out.
SignedHostWithoutPort(parsed) == parsed.host

\* "%s:%d" % (host, port) if port is not None else host
SignedHost(parsed) ==
  IF parsed.port # -1 THEN parsed.host \o <<":">> \o IntStr(parsed.port)
  ELSE parsed.host

\* run_query, with errors the errors container of the module.  timestamp
\* is the clock reading of the call and response what the server answers;
\* the result is the value returned or exception raised (out), the requests
\* handed to the transport, and the contents of the params dict afterwards
\* (mapping).
RunQueryWith(errors, access_key, secret_key, action, params, uri, ssl_ca_file, version, timestamp, response) ==
  LET \* the loop over params.items() re-inserts every key under str(key)
      \* with its value: the contents of the dict are what they were
      merged == MergeFixedFields(params, FixedFields(access_key, action, timestamp, version))
      parsed == Parse(uri)
  IN
  IF parsed.tag = "err" THEN [out |-> parsed, requests |-> <<>>, mapping |-> merged]
  ELSE
    LET signed_host == SignedHost(parsed)
        path == IF parsed.path = <<>> THEN <<"/">> ELSE parsed.path
        url == IF parsed.path = <<>> THEN uri \o <<"/">> ELSE uri
    IN
    IF \E key \in DOMAIN merged : merged[key].k \notin {"str", "bytes"}
    THEN [out |-> Raise("TypeError", "quote_from_bytes() expected bytes"),
          requests |-> <<>>, mapping |-> merged]
    ELSE
      LET signed_params == SignedParams(merged)
          to_sign == Join(<<<<"P", "O", "S", "T">>, signed_host, path, signed_params>>, <<"\n">>)
          request == [url |-> url,
                      body |-> [params |-> signed_params,
                                signature |-> Signature(secret_key, to_sign)],
                      headers |-> [Host |-> signed_host],
                      cainfo |-> ssl_ca_file]
          fetched == Fetch(request, response)
      IN  [out |-> RaiseHttpError(errors, fetched.out, response),
           requests |-> fetched.requests,
           mapping |-> merged]

\* run_query in the module as imported: errors is built from its schema.
RunQuery(access_key, secret_key, action, params, uri, ssl_ca_file, version, timestamp, response) ==
  RunQueryWith(ErrorClasses, access_key, secret_key, action, params, uri, ssl_ca_file, version, timestamp, response)

----------------------------------------------------------------------------
(* The API classes.  An API object is its class (version, the version its  *)
(* _run_query passes on) and the constructor's arguments.                  *)

\* _API.run_query
ApiRunQuery(api, action_name, arguments, timestamp, response) ==
  LET done == RunQuery(api.access_key, api.secret_key, action_name, arguments,
                       api.uri, api.ssl_ca_file, api.query_version,
                       timestamp, response)
  IN  IF done.out.tag = "ok" /\ ~api.json
      THEN [done EXCEPT !.out = JsonLoads(done.out.result)]
      ELSE done

\* A call that signs and sends what it has before it encodes the arguments.
CallSendingFirst(api, method, kwargs, timestamp, response) ==
  IF method \notin DOMAIN Schema \/ api.version \notin DOMAIN Schema[method]
  THEN [out |-> Raise("KeyError", "no such action or version"),
        requests |-> <<>>, mapping |-> EmptyDict]
  ELSE
    LET action == Schema[method][api.version]
        parameters == action.parameters
        fields == [i \in 1..Len(parameters) |-> <<parameters[i].name, parameters[i]>>]
        sent == ApiRunQuery(api, method, EmptyDict, timestamp, response)
        arguments == EncodeStructFields(fields, kwargs, <<>>)
    IN  IF arguments.tag = "err"
        THEN [out |-> arguments, requests |-> sent.requests, mapping |-> sent.mapping]
        ELSE ApiRunQuery(api, method, arguments.map, timestamp, response)

\* _API.call
Call(api, method, kwargs, timestamp, response) ==
  IF method \notin DOMAIN Schema \/ api.version \notin DOMAIN Schema[method]
  THEN [out |-> Raise("KeyError", "no such action or version"),
        requests |-> <<>>, mapping |-> EmptyDict]
  ELSE
    LET action == Schema[method][api.version]
        parameters == action.parameters
        fields == [i \in 1..Len(parameters) |-> <<parameters[i].name, parameters[i]>>]
        arguments == EncodeStructFields(fields, kwargs, <<>>)
    IN  IF arguments.tag = "err"
        THEN [out |-> arguments, requests |-> <<>>, mapping |-> EmptyDict]
        ELSE ApiRunQuery(api, method, arguments.map, timestamp, response)

\* _API.call_arbitrary
CallArbitrary(api, method, arguments, timestamp, response) ==
  ApiRunQuery(api, method, arguments, timestamp, response)

\* The signature api_factory gives the method of an action
\* (_make_api_caller): the positional parameter names, required ones
\* first, and the defaults of the optional ones.
MakeApiCaller(action) ==
  LET parameters == action.parameters
      required == SelectSeq(parameters, LAMBDA x : ~x.optional)
      optional == SelectSeq(parameters, LAMBDA x : x.optional)
  IN  [positional_parameters |->
         [i \in 1..Len(parameters) |->
            IF i <= Len(required) THEN required[i].name
            ELSE optional[i - Len(required)].name],
       defaults |-> [i \in 1..Len(optional) |-> optional[i].default]]

\* Calling the generated method (_caller with the signature given by
\* _change_function) with positional values args and keywords kwargs.
GeneratedMethod(api, action_name, args, kwargs, timestamp, response) ==
  LET caller == MakeApiCaller(Schema[action_name][api.version])
      names == caller.positional_parameters
      first_default == Len(names) - Len(caller.defaults) + 1
      index(n) == CHOOSE i \in 1..Len(names) : names[i] = n
      bound(i) == i <= Len(args) \/ names[i] \in DOMAIN kwargs
  IN
  IF \/ Len(args) > Len(names)
     \/ \E n \in DOMAIN kwargs : \A i \in 1..Len(names) : names[i] # n
     \/ \E n \in DOMAIN kwargs : index(n) <= Len(args)
     \/ \E i \in 1..Len(names) : ~bound(i) /\ i < first_default
  THEN [out |-> Raise("TypeError", "arguments do not fit the signature"),
        requests |-> <<>>, mapping |-> EmptyDict]
  ELSE
    \* _args = locals().copy() without self: every parameter, by name
    LET _args == [n \in {names[i] : i \in 1..Len(names)} |->
                    IF index(n) <= Len(args) THEN args[index(n)]
                    ELSE IF n \in DOMAIN kwargs THEN kwargs[n]
                    ELSE caller.defaults[index(n) - first_default + 1]]
    IN  Call(api, action_name, _args, timestamp, response)

----------------------------------------------------------------------------
(* The command line: SchemaParameterAction turns the text of an argument   *)
(* into a Python value.  The schema of the model declares no float.        *)

\* UsageError(stdout, stderr, error_code); "" is the None of a text and -1
\* the None of the error code.
UsageError(stdout, stderr, error_code) ==
  [tag |-> "err", err |-> "UsageError", stdout |-> stdout, stderr |-> stderr,
   error_code |-> error_code]
CouldNotParse == UsageError("", "Couldn't parse value", 1)
Parsed(value) == [tag |-> "ok", value |-> value]

\* result[key] = value on a dict in insertion order.
DictSet(pairs, key, value) ==
  IF \E i \in 1..Len(pairs) : pairs[i][1] = key
  THEN [i \in 1..Len(pairs) |-> IF pairs[i][1] = key THEN <<key, value>> ELSE pairs[i]]
  ELSE Append(pairs, <<key, value>>)

\* SchemaParameterAction.parse_argument and the parse_<type> methods: the
\* value, or the UsageError.  int() is given decimal digits or fails.
RECURSIVE ParseArgument(_, _)
ParseArgument(parameter, value) ==
  LET kind == Kind(parameter.type) IN
  CASE kind = "integer" ->
         IF ToInt(value) >= 0 THEN Parsed(PyInt(ToInt(value))) ELSE CouldNotParse
    [] kind = "boolean" -> Parsed(PyBool(value = <<"t", "r", "u", "e">>))
    [] kind = "list" ->
         \* parse_list: the items that are not "", each parsed as an item
         LET items == SelectSeq(ParseCsvListSafely(value), LAMBDA item : item # <<>>)
             parsed == [i \in 1..Len(items) |-> ParseArgument(parameter.item, items[i])]
             failed == {i \in 1..Len(items) : parsed[i].tag = "err"}
         IN  IF failed # {} THEN parsed[CHOOSE i \in failed : \A j \in failed : i <= j]
             ELSE Parsed(PyList([i \in 1..Len(items) |-> parsed[i].value]))
    [] kind = "mapping" ->
         \* parse_mapping: keys and values parsed in turn, a later key
         \* replacing an equal earlier one
         LET read == ParseCsvMappingSafely(value) IN
         IF read.tag = "err" THEN CouldNotParse
         ELSE LET keys == [i \in 1..Len(read.pairs) |->
                             ParseArgument(parameter.key, read.pairs[i][1])]
                  values == [i \in 1..Len(read.pairs) |->
                               ParseArgument(parameter.value, read.pairs[i][2])]
                  failed == {i \in 1..Len(read.pairs) :
                               keys[i].tag = "err" \/ values[i].tag = "err"}
                  first == CHOOSE i \in failed : \A j \in failed : i <= j
                  RECURSIVE Filled(_)
                  Filled(n) ==
                    IF n = 0 THEN <<>>
                    ELSE DictSet(Filled(n - 1), keys[n].value, values[n].value)
              IN  IF failed # {}
                  THEN (IF keys[first].tag = "err" THEN keys[first] ELSE values[first])
                  ELSE Parsed(PyDict(Filled(Len(read.pairs))))
    [] OTHER -> Parsed(PyStr(value))

----------------------------------------------------------------------------
(* CommandLine.main.  argv is a sequence of strings, environ a record of   *)
(* the variables main reads (None when unset).  Option strings are given   *)
(* in full and values do not start with "-"; no action takes a "query".    *)

\* The schema as main is handed it: the items of the dict, in order.
SchemaItems ==
  [i \in 1..5 |->
     LET name == <<<<"G", "e", "t">>, <<"P", "u", "t">>, <<"T", "a", "g">>, <<"A", "d", "d">>, <<"N", "e", "w">>>>[i]
     IN  [name |-> name, versions |-> Schema[name]]]

IsOptionString(arg) == Len(arg) > 1 /\ Head(arg) = "-"

\* What wrap_parse_args makes of argparse's error(): its usage text on
\* stderr and the exit code 2 of the SystemExit.
ArgparseError == UsageError("", "usage", 2)

\* get_main_parser().parse_known_args(argv), wrapped: the namespace and the
\* arguments left over, in order, or the UsageError.
ValueOptions ==
  (<<"-", "-", "k", "e", "y">> :> "key") @@ (<<"-", "-", "s", "e", "c", "r", "e", "t">> :> "secret") @@ (<<"-", "-", "u", "r", "i">> :> "uri")
    @@ (<<"-", "-", "s", "s", "l", "-", "c", "a", "-", "f", "i", "l", "e">> :> "ssl_ca_file")
NoMainArgs ==
  [help |-> FALSE, json_output |-> FALSE, key |-> PyNone, secret |-> PyNone,
   uri |-> PyNone, ssl_ca_file |-> PyNone, action |-> PyNone]

RECURSIVE ParseKnownArgs(_, _, _)
ParseKnownArgs(argv, args, extras) ==
  IF argv = <<>> THEN [tag |-> "ok", args |-> args, argv |-> extras]
  ELSE
    LET arg == Head(argv) IN
    IF arg \in {<<"-", "h">>, <<"-", "-", "h", "e", "l", "p">>}
    THEN ParseKnownArgs(Tail(argv), [args EXCEPT !.help = TRUE], extras)
    ELSE IF arg = <<"-", "-", "j", "s", "o", "n">>
    THEN ParseKnownArgs(Tail(argv), [args EXCEPT !.json_output = TRUE], extras)
    ELSE IF arg \in DOMAIN ValueOptions
    THEN IF Len(argv) = 1 \/ IsOptionString(argv[2]) THEN ArgparseError
         ELSE ParseKnownArgs(Tail(Tail(argv)),
                             [args EXCEPT ![ValueOptions[arg]] = PyStr(argv[2])],
                             extras)
    ELSE IF IsOptionString(arg)
    THEN ParseKnownArgs(Tail(argv), args, Append(extras, arg))
    ELSE IF args.action = PyNone
    THEN ParseKnownArgs(Tail(argv), [args EXCEPT !.action = PyStr(arg)], extras)
    ELSE ParseKnownArgs(Tail(argv), args, Append(extras, arg))

\* get_action_parser: the option string of an optional argument, whether
\* it is a flag, and the default of its destination.
OptionString(opt_arg) ==
  IF opt_arg.default = PyBool(TRUE)
  THEN <<"-", "-", "n", "o", "-">> \o Dashed(opt_arg.name)
  ELSE <<"-", "-">> \o Dashed(opt_arg.name)
IsFlag(opt_arg) == opt_arg.default \in {PyBool(FALSE), PyBool(TRUE)}
ParserDefault(opt_arg) ==
  IF opt_arg.default = PyBool(FALSE) THEN PyBool(FALSE)
  ELSE IF opt_arg.default = PyBool(TRUE) THEN PyBool(TRUE)
  ELSE PyNone

\* action_parser.parse_args(argv), wrapped, for the parser of a schema
\* action: the namespace (destination -> value), or the UsageError.  The
\* arguments are taken from left to right; required is what is left of the
\* positional arguments.
RECURSIVE ParseActionArgs(_, _, _, _, _)
ParseActionArgs(required, optional, argv, namespace, extras) ==
  IF argv = <<>>
  THEN IF required # <<>> \/ extras # <<>> THEN ArgparseError
       ELSE [tag |-> "ok", args |-> namespace]
  ELSE
    LET arg == Head(argv)
        options == {i \in 1..Len(optional) : OptionString(optional[i]) = arg}
        opt_arg == optional[CHOOSE i \in options : TRUE]
    IN
    IF options # {} /\ IsFlag(opt_arg)
    THEN ParseActionArgs(required, optional, Tail(argv),
           [namespace EXCEPT ![opt_arg.name] = PyBool(opt_arg.default = PyBool(FALSE))],
           extras)
    ELSE IF options # {}
    THEN IF Len(argv) = 1 \/ IsOptionString(argv[2]) THEN ArgparseError
         ELSE LET value == ParseArgument(opt_arg, argv[2]) IN
              IF value.tag = "err" THEN value
              ELSE ParseActionArgs(required, optional, Tail(Tail(argv)),
                     [namespace EXCEPT ![opt_arg.name] = value.value], extras)
    ELSE IF IsOptionString(arg) \/ required = <<>>
    THEN ParseActionArgs(required, optional, Tail(argv), namespace, Append(extras, arg))
    ELSE LET value == ParseArgument(required[1], arg) IN
         IF value.tag = "err" THEN value
         ELSE ParseActionArgs(Tail(required), optional, Tail(argv),
                DictUpdate(namespace, Single(required[1].name, value.value)), extras)

\* get_call_parser(parser).parse_args(argv), wrapped: action_name and the
\* list of arguments.
ParseCallArgs(argv) ==
  IF \/ \E i \in 1..Len(argv) : IsOptionString(argv[i])
     \/ argv = <<>>
  THEN ArgparseError
  ELSE [tag |-> "ok", args |-> [action_name |-> Head(argv), argument |-> Tail(argv)]]

\* get_api: the API object, or the UsageError of a missing key, secret or
\* URI.
GetApi(args, environ, version) ==
  LET access_key == IF args.key # PyNone THEN args.key ELSE environ.key
      secret_key == IF args.secret # PyNone THEN args.secret ELSE environ.secret
      uri == IF args.uri # PyNone THEN args.uri ELSE environ.uri
  IN  IF access_key = PyNone THEN UsageError("", "Access key not specified.", -1)
      ELSE IF secret_key = PyNone THEN UsageError("", "Secret key not specified.", -1)
      ELSE IF uri = PyNone THEN UsageError("", "URI not specified.", -1)
      ELSE [tag |-> "ok",
            api |-> [version |-> version, query_version |-> version, uri |-> uri.s,
                     access_key |-> access_key.s, secret_key |-> secret_key.s,
                     ssl_ca_file |-> IF args.ssl_ca_file # PyNone THEN args.ssl_ca_file
                                     ELSE environ.ssl_ca_file,
                     json |-> args.json_output]]

\* call_known_action: the required arguments by position, the optional
\* ones that are set and differ from the parser's default by keyword.
CallKnownAction(api, action_name, parameters, args, timestamp, response) ==
  LET required == SelectSeq(parameters, LAMBDA x : ~x.optional)
      optional == SelectSeq(parameters, LAMBDA x : x.optional)
      positional_args == [i \in 1..Len(required) |-> args[required[i].name]]
      given == {i \in 1..Len(optional) :
                  /\ args[optional[i].name] # PyNone
                  /\ args[optional[i].name] # ParserDefault(optional[i])}
      keyword_args == [n \in {optional[i].name : i \in given} |-> args[n]]
  IN  GeneratedMethod(api, action_name, positional_args, keyword_args, timestamp, response)

\* call_arbitrary_action: key, value = arg.split("=", 1) for every argument.
CallArbitraryAction(api, args, timestamp, response) ==
  IF \E i \in 1..Len(args.argument) : Partition(args.argument[i], "=")[2] = <<>>
  THEN [out |-> Raise("ValueError", "not enough values to unpack"),
        requests |-> <<>>, mapping |-> EmptyDict]
  ELSE LET pairs == [i \in 1..Len(args.argument) |-> Partition(args.argument[i], "=")]
           last(key) == CHOOSE i \in 1..Len(pairs) :
                          pairs[i][1] = key /\ \A j \in (i + 1)..Len(pairs) : pairs[j][1] # key
           arguments == [key \in {pairs[i][1] : i \in 1..Len(pairs)} |->
                           PyStr(pairs[last(key)][3])]
       IN  CallArbitrary(api, args.action_name, arguments, timestamp, response)

\* How main ends: the code exit was called with (-1 when main returned
\* without calling it), the exception that left main uncaught ("" when
\* none did), and what was written to stdout and stderr.
Ended(code, raised, stdout, stderr, sent, params) ==
  [out |-> [exit |-> code, raised |-> raised, stdout |-> stdout, stderr |-> stderr],
   requests |-> sent, mapping |-> params]

\* The except UsageError clause of main.
UsageExit(e) ==
  Ended(IF e.error_code # -1 THEN e.error_code ELSE 1, "", e.stdout, e.stderr,
        <<>>, EmptyDict)

RAW_ACTIONS_LIST == {<<"g", "e", "t", "-", "s", "c", "r", "i", "p", "t", "-", "c", "o", "d", "e">>}

\* main, after the try statement: the result is written to stdout; action
\* is a local variable the "call" action never assigns.
AfterCall(is_call, json_output, action, done) ==
  IF json_output THEN Ended(-1, "", "result", "", done.requests, done.mapping)
  ELSE IF is_call
  THEN Ended(-1, "UnboundLocalError", "", "", done.requests, done.mapping)
  ELSE Ended(-1, "", "result", "", done.requests, done.mapping)

\* The except HTTPError clause of main, and the except Exception one for
\* every other exception of the call.
CallFailed(done) ==
  IF done.out.err = "HTTPError"
  THEN Ended(2, "",  "",
             IF done.out.error_code # PyNone THEN "Got server error"
             ELSE "Got unexpected server error",
             done.requests, done.mapping)
  ELSE Ended(1, "", "", done.out.err, done.requests, done.mapping)

\* main from the call on: the except clauses around it and what follows
\* the try statement.
MainCalled(is_call, json_output, action, done) ==
  IF done.out.tag = "err" THEN CallFailed(done)
  ELSE AfterCall(is_call, json_output, action, done)

\* main for the "call" action, from action_parser.parse_args on.
MainArbitrary(api, action_args, json_output, timestamp, response) ==
  IF action_args.tag = "err" THEN UsageExit(action_args)
  ELSE MainCalled(TRUE, json_output, PyNone,
                  CallArbitraryAction(api, action_args.args, timestamp, response))

\* main for an action of the schema, from action_parser.parse_args on.
MainKnown(api, action, action_name, parameters, action_args, json_output, timestamp, response) ==
  IF action_args.tag = "err" THEN UsageExit(action_args)
  ELSE MainCalled(FALSE, json_output \/ action.name \in RAW_ACTIONS_LIST, action,
                  CallKnownAction(api, action_name, parameters, action_args.args,
                                  timestamp, response))

\* get_action_parser(parser, action).parse_args(argv), wrapped.
ParseKnownActionArgs(parameters, argv) ==
  LET required == SelectSeq(parameters, LAMBDA x : ~x.optional)
      optional == SelectSeq(parameters, LAMBDA x : x.optional)
      defaults == [n \in {optional[i].name : i \in 1..Len(optional)} |->
                     ParserDefault(optional[CHOOSE i \in 1..Len(optional) :
                                              optional[i].name = n])]
  IN  ParseActionArgs(required, optional, argv, defaults, <<>>)

\* main from get_api on, for the action looked up.
MainAction(got, action, action_name, rest, json_output, version, timestamp, response) ==
  IF got.tag = "err" THEN UsageExit(got)
  ELSE IF action = PyNone
  THEN MainArbitrary(got.api, ParseCallArgs(rest), json_output, timestamp, response)
  ELSE MainKnown(got.api, action, action_name, Schema[action_name][version].parameters,
                 ParseKnownActionArgs(Schema[action_name][version].parameters, rest),
                 json_output, timestamp, response)

\* The action of the given command-line name, None for "call".
ActionNamed(actions, name) ==
  IF name = <<"c", "a", "l", "l">> THEN PyNone
  ELSE actions[CHOOSE i \in 1..Len(actions) : actions[i].name = name]

\* The body of main's try statement, for the actions of the schema and the
\* outcome of parser.parse_known_args.
MainTry(actions, callers, parsed, argv, environ, timestamp, response) ==
  IF actions.tag = "err" THEN Ended(-1, actions.err, "", "", <<>>, EmptyDict)
  ELSE IF argv = <<>> THEN UsageExit(UsageError("usage", "", 0))
  ELSE IF parsed.tag = "err" THEN UsageExit(parsed)
  ELSE
    LET args == parsed.args
        rest == parsed.argv
        is_help == args.action = PyStr(<<"h", "e", "l", "p">>)
        print_help_only == is_help \/ args.help
        action_map == {actions.actions[i].name : i \in 1..Len(actions.actions)}
        name == IF is_help THEN PyStr(rest[1]) ELSE args.action
        is_call == name = PyStr(<<"c", "a", "l", "l">>)
    IN
    IF (is_help /\ rest = <<>>) \/ (args.help /\ args.action = PyNone)
    THEN UsageExit(UsageError("usage", "", 0))
    ELSE IF name = PyNone THEN UsageExit(UsageError("", "Please specify an action.", -1))
    ELSE IF ~is_call /\ name.s \notin action_map
    THEN UsageExit(UsageError("", "Unknown action", -1))
    ELSE IF print_help_only THEN UsageExit(UsageError("help", "", 0))
    ELSE MainAction(GetApi(args, environ, environ.version),
                    ActionNamed(actions.actions, name.s),
                    IF is_call THEN <<>>
                    ELSE callers[ActionNamed(actions.actions, name.s).method_name],
                    rest, args.json_output, environ.version, timestamp, response)

\* CommandLine.main(argv, schema) with the schema of the module.
Main(argv, environ, timestamp, response) ==
  MainTry(GetActions(SchemaItems, environ.version),
          GetActionCallers(SchemaItems, environ.version, EmptyDict),
          ParseKnownArgs(argv, NoMainArgs, <<>>),
          argv, environ, timestamp, response)

----------------------------------------------------------------------------
(* The inputs the operations are run on.                                   *)

\* The values a caller passes for a parameter of each type.
ValuesFor(parameter) ==
  LET kind == Kind(parameter.type) IN
  CASE kind \in {"integer", "float"} -> {PyInt(0), PyInt(7)}
    [] kind = "boolean" -> {PyBool(FALSE), PyBool(TRUE)}
    [] kind \in {"unicode", "unicode_line", "unicode_title"} ->
         {PyStr(<<"x">>), PyBytes(<<"x">>)}
    [] kind \in {"raw_string", "enum"} -> {PyStr(<<>>), PyStr(<<"x">>)}
    [] kind = "date" -> {PyNone, PyDate(2020, 1, 2)}
    [] kind \in {"file", "data"} -> {PyStr(<<"f">>), PyStr(<<"z">>)}
    [] kind = "list" -> {PyList(<<PyStr(<<"x">>)>>), PyStr(<<"x", ",", "y">>)}
    [] OTHER -> {PyNone}

\* The descriptors field lists are made of: required and optional ones, the
\* optional ones with the falsy defaults false, 0, "" and None.
Templates ==
  <<Required(<<>>, "integer"),
    Required(<<>>, "unicode"),
    Required(<<>>, "file"),
    Optional(<<>>, "boolean", PyBool(FALSE)),
    Optional(<<>>, "integer", PyInt(0)),
    Optional(<<>>, "raw string", PyStr(<<>>)),
    Optional(<<>>, "date", PyNone)>>

\* The i-th field is named a, b, c, ...
FieldName(i) == <<Chr(96 + i)>>

\* The field lists (name, descriptor) of at most MaxFields fields.
FieldLists ==
  {[i \in 1..Len(choice) |->
      <<FieldName(i), [Templates[choice[i]] EXCEPT !.name = FieldName(i)]>>] :
   choice \in UNION {[1..n -> 1..Len(Templates)] : n \in 0..MaxFields}}

\* The argument sets over a field list: each field absent or given one of
\* the values of its type.
RECURSIVE DeclaredArguments(_)
DeclaredArguments(fields) ==
  IF fields = <<>> THEN {EmptyDict}
  ELSE LET rest == DeclaredArguments(Tail(fields)) IN
       rest \cup {DictUpdate(r, Single(fields[1][1], v)) :
                    v \in ValuesFor(fields[1][2]), r \in rest}

\* ... with or without an argument no field declares.
Undeclared == Single(<<"z">>, PyInt(1))
ArgumentSets(fields) ==
  LET declared == DeclaredArguments(fields) IN
  declared \cup {DictUpdate(d, Undeclared) : d \in declared}

Prefixes == {<<>>, <<"p", ".">>}

\* The strings of at most MaxCsvLen characters over the characters the
\* comma-separated grammars give a meaning to.
CsvAlphabet == {"a", ",", "\\", "=", " "}
CsvStrings == UNION {[1..n -> CsvAlphabet] : n \in 0..MaxCsvLen}

\* The native lists and containers of at most MaxItems entries.
ItemValues == {PyStr(<<"a">>), PyStr(<<"b", ",", "c">>), PyInt(1)}
NativeLists == {PyList(items) : items \in UNION {[1..n -> ItemValues] : n \in 0..MaxItems}}
KeyValues == {PyStr(<<"k">>), PyStr(<<"k", "1">>), PyInt(1)}
NativeDicts ==
  {PyDict([i \in 1..Len(keys) |-> <<keys[i], PyStr(<<"v">>)>>]) :
     keys \in {ks \in UNION {[1..n -> KeyValues] : n \in 0..MaxItems} :
                 \A i, j \in 1..Len(ks) : i # j => ks[i] # ks[j]}}

\* The single parameters _encode_argument is run on, with their values.
RawString == Required(<<>>, "raw string")
ListOf(item) == [name |-> <<"n">>, type |-> "list", optional |-> FALSE, item |-> item]
MappingOf(key, value) ==
  [name |-> <<"n">>, type |-> "mapping", optional |-> FALSE, key |-> key, value |-> value]
StructureOf(fields) ==
  [name |-> <<"n">>, type |-> "structure", optional |-> FALSE, fields |-> fields]

ArgumentCases ==
  ({ListOf(RawString), ListOf(Required(<<>>, "integer"))}
     \X ({PyStr(s) : s \in CsvStrings} \cup NativeLists \cup {PyInt(1)}))
  \cup ({MappingOf(RawString, RawString)}
     \X ({PyStr(s) : s \in CsvStrings} \cup NativeDicts \cup {PyInt(1)}))
  \cup ({Required(<<"n">>, "unicode"), Required(<<"n">>, "unicode line"),
         Required(<<"n">>, "unicode title")}
     \X {PyStr(<<>>), PyStr(<<"x">>), PyBytes(<<"x">>), PyDate(2020, 1, 2), PyInt(1)})
  \cup ({Required(<<"n">>, "data"), Required(<<"n">>, "file")}
     \X {PyStr(<<"f">>), PyStr(<<"d", "/", "g">>), PyStr(<<"z">>)})
  \cup ({Required(<<"n">>, "date"), Required(<<"n">>, "enum"), Required(<<"n">>, "float")}
     \X {PyStr(<<"x">>), PyDate(2020, 1, 2), PyInt(1)})
  \cup ({StructureOf(<< <<(<<"x">>), Required(<<"x">>, "integer")>>,
                        <<(<<"y">>), Optional(<<"y">>, "boolean", PyBool(FALSE))>> >>)}
     \X {PyDict(<<>>),
         PyDict(<< <<PyStr(<<"x">>), PyInt(1)>> >>),
         PyDict(<< <<PyStr(<<"x">>), PyInt(1)>>, <<PyStr(<<"y">>), PyBool(TRUE)>> >>),
         PyDict(<< <<PyStr(<<"x">>), PyInt(1)>>, <<PyStr(<<"w">>), PyInt(1)>> >>),
         PyList(<<>>)})

\* The API objects: instances of the classes API, APIv2 and
\* api_factory(schema, FUTURE_VERSION) (which looks actions up under its
\* version and inherits _run_query, with its default version, from _API).
ApiObject(version, query_version, uri, json) ==
  [version |-> version, query_version |-> query_version, uri |-> uri,
   access_key |-> <<"k">>, secret_key |-> <<"s">>, ssl_ca_file |-> PyNone,
   json |-> json]

PlainUri == <<"h", "t", "t", "p", ":", "/", "/", "h">>
PortUri == <<"h", "t", "t", "p", "s", ":", "/", "/", "H", ":", "8", "/", "p">>
BadUri == <<"f", "t", "p", ":", "/", "/", "h">>

Uris == {PlainUri, PortUri, BadUri}

Apis ==
  {ApiObject(LATEST_VERSION, LATEST_VERSION, PlainUri, FALSE),
   ApiObject(LATEST_VERSION, LATEST_VERSION, PortUri, TRUE),
   ApiObject(LATEST_VERSION, LATEST_VERSION, BadUri, FALSE),
   ApiObject(FUTURE_VERSION, FUTURE_VERSION, PlainUri, FALSE),
   ApiObject(FUTURE_VERSION, LATEST_VERSION, PortUri, FALSE)}

\* The clock readings of a call, and the answers of the server.
Timestamps == {<<"2", "0", "2", "0", "-", "0", "1", "-", "0", "2", "T", "0", "3", ":", "0", "4", ":", "0", "5", "Z">>, <<"2", "0", "2", "0", "-", "0", "1", "-", "0", "2", "T", "0", "3", ":", "0", "4", ":", "0", "6", "Z">>}

\* An entry of an errors list with its code (or null) and a message, and an
\* answer whose body holds "error" and "message".
SubEntry(error) == Data(TRUE, error, TRUE, FALSE, <<>>)
JsonError(status, error, has_errors, errors) ==
  [ok |-> FALSE, status |-> status,
   data |-> Data(TRUE, error, TRUE, has_errors, errors)]

Responses ==
  {[ok |-> TRUE, text |-> <<"[", "]">>],
   [ok |-> TRUE, text |-> <<"x">>],
   [ok |-> FALSE, status |-> 404, data |-> NoData],
   JsonError(400, PyStr(<<"U", "n", "k", "n", "o", "w", "n", "C", "o", "m", "p", "u", "t", "e", "r">>), FALSE, <<>>),
   JsonError(401, PyStr(<<"U", "n", "a", "u", "t", "h", "o", "r", "i", "s", "e", "d">>), FALSE, <<>>),
   JsonError(400, PyStr(<<"M", "u", "l", "t", "i", "E", "r", "r", "o", "r">>), TRUE,
             <<SubEntry(PyStr(<<"U", "n", "k", "n", "o", "w", "n", "C", "o", "m", "p", "u", "t", "e", "r">>)), SubEntry(PyStr(<<"N", "o", "S", "u", "c", "h">>)),
               SubEntry(PyNone)>>)}

\* The keyword arguments API.call is given for an action of the schema.
CallCases ==
  UNION {{<<method, version, kwargs>> :
            kwargs \in ArgumentSets(
              [i \in 1..Len(Schema[method][version].parameters) |->
                 <<Schema[method][version].parameters[i].name,
                   Schema[method][version].parameters[i]>>])} :
         <<method, version>> \in {mv \in (DOMAIN Schema) \X {LATEST_VERSION, FUTURE_VERSION} :
                                    mv[2] \in DOMAIN Schema[mv[1]]}}

\* The parameters call_arbitrary is given: at most MaxParams keys, among
\* them keys that percent-encoding rewrites and the name of a fixed field.
ParamKeys == {<<"a">>, <<"a", "-">>, <<"a", "/">>, <<"b", " ", "c">>, <<"a", "c", "t", "i", "o", "n">>}
ParamValues == {PyStr(<<"1">>), PyStr(<<"x", " ", "/">>)}
ParamSets ==
  UNION {[keys -> ParamValues] :
           keys \in {ks \in SUBSET ParamKeys : Cardinality(ks) <= MaxParams}}
    \cup {Single(<<"a">>, PyInt(1))}

ActionNames == {<<"G", "e", "t">>, <<"X", "y", "z">>}

----------------------------------------------------------------------------
(* The operations.                                                         *)

Init ==
  /\ op = "init"
  /\ inp = <<>>
  /\ out = <<>>
  /\ requests = <<>>
  /\ mapping = EmptyDict
  /\ prev = <<>>
  /\ schema_now = Schema

\* _API._encode_struct_fields(fields, arguments, prefix)
EncodeStructFieldsOp ==
  /\ op = "init"
  /\ \E fields \in FieldLists : \E arguments \in ArgumentSets(fields) :
     \E prefix \in Prefixes :
    /\ op' = "_encode_struct_fields"
    /\ inp' = [fields |-> fields, arguments |-> arguments, prefix |-> prefix]
    /\ out' = EncodeStructFields(fields, arguments, prefix)
    /\ UNCHANGED <<requests, mapping, prev, schema_now>>

\* _API._encode_argument(parameter, name, value)
EncodeArgumentOp ==
  /\ op = "init"
  /\ \E case \in ArgumentCases :
    /\ op' = "_encode_argument"
    /\ inp' = [parameter |-> case[1], name |-> <<"n">>, value |-> case[2]]
    /\ out' = EncodeArgument(case[1], <<"n">>, case[2])
    /\ UNCHANGED <<requests, mapping, prev, schema_now>>

\* What a call leaves behind.
Done(name, input, done) ==
  /\ op' = name
  /\ inp' = input
  /\ out' = done.out
  /\ requests' = done.requests
  /\ mapping' = done.mapping
  /\ UNCHANGED <<prev, schema_now>>

\* What an operation leaves behind that worked on the given schema.
DoneOn(name, input, done, schema) ==
  /\ op' = name
  /\ inp' = input
  /\ out' = done.out
  /\ requests' = done.requests
  /\ mapping' = done.mapping
  /\ schema_now' = schema
  /\ UNCHANGED prev

\* API.call(method, **kwargs)
CallOp ==
  /\ op = "init"
  /\ \E api \in Apis : \E case \in CallCases :
     \E timestamp \in Timestamps : \E response \in Responses :
       Done("call",
         [api |-> api, method |-> case[1], kwargs |-> case[3],
          timestamp |-> timestamp, response |-> response],
         Call(api, case[1], case[3], timestamp, response))

\* The generated method of an action of the API's version, called with the
\* required arguments by position and some optional ones by keyword (absent
\* when kwargs holds a required name).
MethodOp ==
  /\ op = "init"
  /\ \E api \in Apis : \E case \in CallCases :
     \E timestamp \in Timestamps : \E response \in Responses :
    LET parameters == Schema[case[1]][case[2]].parameters
        required == SelectSeq(parameters, LAMBDA x : ~x.optional)
        names == {required[i].name : i \in 1..Len(required)}
    IN
    /\ case[2] = api.version
    /\ names \subseteq DOMAIN case[3]
    /\ LET args == [i \in 1..Len(required) |-> case[3][required[i].name]]
           kwargs == [n \in DOMAIN case[3] \ names |-> case[3][n]]
       IN  Done("method",
                [api |-> api, method |-> case[1], args |-> args, kwargs |-> kwargs,
                 timestamp |-> timestamp, response |-> response],
                GeneratedMethod(api, case[1], args, kwargs, timestamp, response))

\* API.call_arbitrary(method, arguments)
CallArbitraryOp ==
  /\ op = "init"
  /\ \E api \in Apis : \E method \in ActionNames : \E arguments \in ParamSets :
     \E timestamp \in Timestamps : \E response \in Responses :
       Done("call_arbitrary",
         [api |-> api, method |-> method, arguments |-> arguments,
          timestamp |-> timestamp, response |-> response],
         CallArbitrary(api, method, arguments, timestamp, response))

\* The endpoint URIs run_query is given: scheme "://" host [":" port] path.
UriOf(scheme, host, port, path) ==
  [scheme |-> scheme, host |-> host, port |-> port, path |-> path]
ComposeUri(parts) ==
  parts.scheme \o <<":", "/", "/">> \o parts.host
    \o (IF parts.port = <<>> THEN <<>> ELSE <<":">> \o parts.port) \o parts.path

UriParts ==
  {UriOf(<<"h", "t", "t", "p">>, <<"h">>, <<>>, <<>>),
   UriOf(<<"h", "t", "t", "p">>, <<"h">>, <<>>, <<"/", "p">>),
   UriOf(<<"h", "t", "t", "p", "s">>, <<"H">>, <<"8">>, <<>>),
   UriOf(<<"H", "T", "T", "P", "S">>, <<"h">>, <<"0", "8">>, <<"/", "p">>),
   UriOf(<<"h", "t", "t", "p">>, <<"h">>, <<"8">>, <<"/">>),
   UriOf(<<"f", "t", "p">>, <<"h">>, <<>>, <<>>),
   UriOf(<<"h", "t", "t", "p", "x">>, <<"h">>, <<"8">>, <<"/", "p">>),
   UriOf(<<"f", "i", "l", "e">>, <<"h">>, <<>>, <<"/", "p">>)}

\* The params run_query is given, and the answers of the server.
SignParams ==
  {EmptyDict,
   (<<"a", "-">> :> PyStr(<<"1">>)) @@ (<<"b", " ", "c">> :> PyStr(<<"x", " ", "/">>)),
   (<<"t", "i", "m", "e", "s", "t", "a", "m", "p">> :> PyStr(<<"1">>)) @@ (<<"a">> :> PyStr(<<"1">>))}

SignResponses ==
  {[ok |-> TRUE, text |-> <<"[", "]">>],
   [ok |-> FALSE, status |-> 404, data |-> NoData]}

\* run_query(access_key, secret_key, action, params, uri, version=...),
\* on its own or right after one other run; the second run may be handed
\* the dict the first one was handed (which run_query updated in place).
RunQueryOp ==
  /\ op = "init" \/ (op = "run_query" /\ prev = <<>>)
  /\ \E parts \in UriParts :
     \E params \in SignParams \cup (IF op = "run_query" THEN {mapping} ELSE {}) :
     \E timestamp \in Timestamps : \E response \in SignResponses :
       LET done == RunQuery(<<"k">>, <<"s">>, <<"G", "e", "t">>, params,
                            ComposeUri(parts), PyNone, LATEST_VERSION,
                            timestamp, response)
       IN  /\ op' = "run_query"
           /\ inp' = [access_key |-> <<"k">>, secret_key |-> <<"s">>,
                      action |-> <<"G", "e", "t">>, params |-> params,
                      uri |-> ComposeUri(parts), parts |-> parts,
                      version |-> LATEST_VERSION, timestamp |-> timestamp,
                      response |-> response]
           /\ out' = done.out
           /\ requests' = done.requests
           /\ mapping' = done.mapping
           /\ prev' = IF op = "run_query"
                      THEN [inp |-> inp, requests |-> requests]
                      ELSE <<>>
           /\ UNCHANGED schema_now

\* API.call_arbitrary(method, arguments) once more on the same API object,
\* handed the dict the call before was handed (run_query updated it in
\* place); RepeatedParams are the dicts a caller passes twice.
RepeatedParams ==
  {EmptyDict,
   Single(<<"a">>, PyStr(<<"1">>)),
   Single(<<"a", "c", "t", "i", "o", "n">>, PyStr(<<"1">>)),
   (<<"a", "-">> :> PyStr(<<"1">>)) @@ (<<"b", " ", "c">> :> PyStr(<<"x", " ", "/">>))}
CallArbitraryAgainOp ==
  /\ op = "call_arbitrary"
  /\ inp.arguments \in RepeatedParams
  /\ \E method \in ActionNames : \E timestamp \in Timestamps :
     \E response \in SignResponses :
       LET done == CallArbitrary(inp.api, method, mapping, timestamp, response)
       IN  /\ op' = "call_arbitrary_again"
           /\ inp' = [api |-> inp.api, method |-> method, arguments |-> mapping,
                      timestamp |-> timestamp, response |-> response]
           /\ out' = done.out
           /\ requests' = done.requests
           /\ mapping' = done.mapping
           /\ prev' = [inp |-> inp, requests |-> requests, mapping |-> mapping]
           /\ UNCHANGED schema_now

\* The names _lowercase_api_name is given: the names of the documentation
\* and every name of at most MaxNameLen letters and digits of a small
\* alphabet.
NameAlphabet == {"a", "B", "C", "1"}
DocumentedNames ==
  {<<"G", "e", "t", "C", "o", "m", "p", "u", "t", "e", "r", "s">>,
   <<"I", "m", "p", "o", "r", "t", "G", "P", "G", "K", "e", "y">>,
   <<"C", "S", "V", "E", "x", "p", "o", "r", "t">>}
WireNames ==
  DocumentedNames \cup UNION {[1..n -> NameAlphabet] : n \in 1..MaxNameLen}

\* The schemas the registry is built from: at most MaxActions actions,
\* each defined for one version or both; two of the names derive the same
\* local name, one the name of a method of _API, one is overridden.
FactoryNames ==
  {<<"G", "e", "t", "C", "S", "V">>, <<"G", "e", "t", "C", "s", "v">>, <<"C", "a", "l", "l">>, <<"I", "m", "p", "o", "r", "t", "G", "P", "G", "K", "e", "y">>, <<"P", "u", "t", "B">>}
VersionSets == {{LATEST_VERSION}, {FUTURE_VERSION}, {LATEST_VERSION, FUTURE_VERSION}}
ParametersOf(name) ==
  IF name = <<"I", "m", "p", "o", "r", "t", "G", "P", "G", "K", "e", "y">>
  THEN <<Required(<<"n", "a", "m", "e">>, "unicode"), Required(<<"m", "a", "t", "e", "r", "i", "a", "l">>, "unicode")>>
  ELSE <<Required(<<"a">>, "integer"), Optional(<<"b">>, "boolean", PyBool(FALSE))>>
SchemaEntry(name, versions) ==
  [name |-> name,
   versions |-> [v \in versions |->
                   [doc |-> "d", parameters |-> ParametersOf(name), errors |-> <<>>]]]
FactorySchemas ==
  {[i \in 1..Len(choice) |-> SchemaEntry(choice[i][1], choice[i][2])] :
   choice \in {c \in UNION {[1..n -> FactoryNames \X VersionSets] : n \in 0..MaxActions} :
                 \A i, j \in 1..Len(c) : i # j => c[i][1] # c[j][1]}}

\* api_factory(schema, version)
ApiFactoryOp ==
  /\ op = "init"
  /\ \E schema \in FactorySchemas : \E version \in {LATEST_VERSION, FUTURE_VERSION} :
    /\ op' = "api_factory"
    /\ inp' = [schema |-> schema, version |-> version]
    /\ out' = ApiFactory(schema, version)
    /\ schema_now' = schema
    /\ UNCHANGED <<requests, mapping, prev>>

\* CommandLine.get_actions(schema, version)
GetActionsOp ==
  /\ op = "init"
  /\ \E schema \in FactorySchemas : \E version \in {LATEST_VERSION, FUTURE_VERSION} :
    /\ op' = "get_actions"
    /\ inp' = [schema |-> schema, version |-> version]
    /\ out' = GetActions(schema, version)
    /\ schema_now' = SchemaAfterGetActions(schema, version)
    /\ UNCHANGED <<requests, mapping, prev>>

\* _lowercase_api_name(name)
LowercaseApiNameOp ==
  /\ op = "init"
  /\ \E name \in WireNames :
    /\ op' = "_lowercase_api_name"
    /\ inp' = [name |-> name]
    /\ out' = LowercaseApiName(name)
    /\ UNCHANGED <<requests, mapping, prev, schema_now>>

\* run_query in a module whose schema declares the given error codes,
\* answered by a server error.  The error codes a schema may declare:
DeclaredCodes ==
  {<<"U", "n", "k", "n", "o", "w", "n", "C", "o", "m", "p", "u", "t", "e", "r">>, <<"B", "u", "s", "y", "E", "r", "r", "o", "r">>, <<"U", "n", "a", "u", "t", "h", "o", "r", "i", "s", "e", "d">>, <<"A", "u", "t", "h", "F", "a", "i", "l", "u", "r", "e">>}

CodeSets == {codes \in SUBSET DeclaredCodes : Cardinality(codes) <= MaxCodes}

\* The error codes an answer may report.
ServerCodes ==
  {<<"U", "n", "k", "n", "o", "w", "n", "C", "o", "m", "p", "u", "t", "e", "r">>, <<"U", "n", "k", "n", "o", "w", "n", "C", "o", "m", "p", "u", "t", "e", "r", "E", "r", "r", "o", "r">>, <<"B", "u", "s", "y", "E", "r", "r", "o", "r">>, <<"B", "u", "s", "y", "E", "r", "r", "o", "r", "E", "r", "r", "o", "r">>,
   <<"U", "n", "a", "u", "t", "h", "o", "r", "i", "s", "e", "d">>, <<"U", "n", "a", "u", "t", "h", "o", "r", "i", "s", "e", "d", "E", "r", "r", "o", "r">>, <<"A", "u", "t", "h", "F", "a", "i", "l", "u", "r", "e">>, <<"A", "u", "t", "h", "F", "a", "i", "l", "u", "r", "e", "E", "r", "r", "o", "r">>,
   <<"S", "i", "g", "n", "a", "t", "u", "r", "e", "D", "o", "e", "s", "N", "o", "t", "M", "a", "t", "c", "h">>, <<"I", "n", "v", "a", "l", "i", "d", "C", "r", "e", "d", "e", "n", "t", "i", "a", "l", "s">>, <<"N", "o", "S", "u", "c", "h">>}

\* The entries of an errors list: a code and a message, a null code, no
\* code, no message, and the empty object.
SubEntries ==
  {SubEntry(PyStr(code)) :
     code \in {<<"U", "n", "k", "n", "o", "w", "n", "C", "o", "m", "p", "u", "t", "e", "r">>, <<"B", "u", "s", "y", "E", "r", "r", "o", "r">>, <<"U", "n", "a", "u", "t", "h", "o", "r", "i", "s", "e", "d">>, <<"A", "u", "t", "h", "F", "a", "i", "l", "u", "r", "e">>,
               <<"I", "n", "v", "a", "l", "i", "d", "C", "r", "e", "d", "e", "n", "t", "i", "a", "l", "s">>, <<"N", "o", "S", "u", "c", "h">>, <<"M", "u", "l", "t", "i", "E", "r", "r", "o", "r">>}}
  \cup {SubEntry(PyNone),
        Data(FALSE, PyNone, TRUE, FALSE, <<>>),
        Data(TRUE, PyStr(<<"N", "o", "S", "u", "c", "h">>), FALSE, FALSE, <<>>),
        NoData}

SubErrorLists ==
  UNION {[1..n -> SubEntries] : n \in 0..MaxSubErrors}

ErrorResponses ==
  {JsonError(400, PyStr(code), FALSE, <<>>) : code \in ServerCodes \cup {<<"M", "u", "l", "t", "i", "E", "r", "r", "o", "r">>}}
  \cup {JsonError(400, PyStr(<<"M", "u", "l", "t", "i", "E", "r", "r", "o", "r">>), TRUE, errors) : errors \in SubErrorLists}
  \cup {JsonError(400, PyNone, FALSE, <<>>),
        [ok |-> FALSE, status |-> 400, data |-> Data(TRUE, PyStr(<<"N", "o", "S", "u", "c", "h">>), FALSE, FALSE, <<>>)],
        [ok |-> FALSE, status |-> 404, data |-> NoData],
        [ok |-> TRUE, text |-> <<"[", "]">>]}

RunQueryErrorOp ==
  /\ op = "init"
  /\ \E codes \in CodeSets : \E response \in ErrorResponses :
       Done("run_query_error",
            [codes |-> codes, response |-> response],
            RunQueryWith(ErrorsOf(codes), <<"k", "e", "y">>, <<"s", "e", "c", "r", "e", "t">>, <<"G", "e", "t", "C", "o", "m", "p", "u", "t", "e", "r", "s">>,
                         EmptyDict, ComposeUri(UriOf(<<"h", "t", "t", "p">>, <<"h">>, <<>>, <<>>)),
                         PyNone, LATEST_VERSION, <<"t">>, response))

\* The lists of at most MaxItems non-empty items over a letter, the comma
\* and the backslash, and the string a list is written as: the items joined
\* by commas, each comma of an item written as backslash-comma.
ItemAlphabet == {"a", ",", "\\"}
ItemTexts ==
  UNION {[1..n -> ItemAlphabet] : n \in 1..MaxItemLen}
ItemLists ==
  UNION {[1..n -> ItemTexts] : n \in 0..MaxItems}

RECURSIVE EscapeCommas(_)
EscapeCommas(item) ==
  IF item = <<>> THEN <<>>
  ELSE (IF Head(item) = "," THEN <<"\\", ",">> ELSE <<Head(item)>>)
         \o EscapeCommas(Tail(item))
WriteCsvList(items) ==
  Join([i \in 1..Len(items) |-> EscapeCommas(items[i])], <<",">>)

\* SchemaParameterAction.parse_list on the string a list of raw strings is
\* written as.
RawStringList ==
  [name |-> <<"t">>, type |-> "list", optional |-> FALSE,
   item |-> Required(<<>>, "raw string")]

ParseListOp ==
  /\ op = "init"
  /\ \E items \in ItemLists :
       /\ op' = "parse_list"
       /\ inp' = [items |-> items, value |-> WriteCsvList(items)]
       /\ out' = ParseArgument(RawStringList, WriteCsvList(items))
       /\ UNCHANGED <<requests, mapping, prev, schema_now>>

\* The command lines: global options, then an action with its arguments,
\* then --json or nothing.
GlobalArgs ==
  {<<>>,
   <<<<"-", "-", "j", "s", "o", "n">>>>,
   <<<<"-", "-", "h", "e", "l", "p">>>>,
   <<<<"-", "-", "k", "e", "y">>, <<"k">>, <<"-", "-", "s", "e", "c", "r", "e", "t">>, <<"s">>, <<"-", "-", "u", "r", "i">>, <<"h", "t", "t", "p", ":", "/", "/", "h">>>>,
   <<<<"-", "-", "k", "e", "y">>>>}
ActionArgs ==
  {<<>>,
   <<<<"h", "e", "l", "p">>>>,
   <<<<"h", "e", "l", "p">>, <<"g", "e", "t">>>>,
   <<<<"h", "e", "l", "p">>, <<"c", "a", "l", "l">>>>,
   <<<<"h", "e", "l", "p">>, <<"n", "o", "p", "e">>>>,
   <<<<"n", "o", "p", "e">>>>,
   <<<<"g", "e", "t">>>>,
   <<<<"g", "e", "t">>, <<"1">>>>,
   <<<<"g", "e", "t">>, <<"x">>>>,
   <<<<"g", "e", "t">>, <<"1">>, <<"-", "-", "b">>>>,
   <<<<"g", "e", "t">>, <<"1">>, <<"-", "-", "n">>, <<"7">>>>,
   <<<<"g", "e", "t">>, <<"1">>, <<"-", "-", "n">>, <<"x">>>>,
   <<<<"g", "e", "t">>, <<"1">>, <<"-", "-", "n">>>>,
   <<<<"g", "e", "t">>, <<"1">>, <<"-", "-", "z", "z">>>>,
   <<<<"g", "e", "t">>, <<"1">>, <<"2">>>>,
   <<<<"p", "u", "t">>, <<"x">>>>,
   <<<<"a", "d", "d">>, <<"f">>>>,
   <<<<"a", "d", "d">>, <<"z">>>>,
   <<<<"t", "a", "g">>, <<"a", ",", "b">>>>,
   <<<<"t", "a", "g">>, <<"a">>, <<"-", "-", "d">>, <<"x">>>>,
   <<<<"n", "e", "w">>>>,
   <<<<"n", "e", "w">>, <<"-", "-", "q">>, <<"x">>>>,
   <<<<"c", "a", "l", "l">>>>,
   <<<<"c", "a", "l", "l">>, <<"G", "e", "t">>>>,
   <<<<"c", "a", "l", "l">>, <<"G", "e", "t">>, <<"a", "=", "1">>>>,
   <<<<"c", "a", "l", "l">>, <<"G", "e", "t">>, <<"a">>>>,
   <<<<"c", "a", "l", "l">>, <<"N", "o", "p", "e">>, <<"a", "=", "1">>, <<"a", "=", "2">>>>,
   <<<<"c", "a", "l", "l">>, <<"G", "e", "t">>, <<"-", "-", "z", "z">>>>}
TrailingArgs == {<<>>, <<<<"-", "-", "j", "s", "o", "n">>>>}
CommandLines ==
  {pre \o mid \o post : pre \in GlobalArgs, mid \in ActionArgs, post \in TrailingArgs}

\* The environment: the key, the secret, the URI and the API version set
\* or not (the version defaults to LATEST_VERSION).
Environ(key, secret, uri, version) ==
  [key |-> key, secret |-> secret, uri |-> uri, ssl_ca_file |-> PyNone,
   version |-> version]
Environs ==
  {Environ(PyStr(<<"k">>), PyStr(<<"s">>), PyStr(PlainUri), LATEST_VERSION),
   Environ(PyStr(<<"k">>), PyStr(<<"s">>), PyStr(PlainUri), FUTURE_VERSION),
   Environ(PyStr(<<"k">>), PyStr(<<"s">>), PyStr(BadUri), LATEST_VERSION),
   Environ(PyStr(<<"k">>), PyStr(<<"s">>), PyNone, LATEST_VERSION),
   Environ(PyNone, PyNone, PyNone, LATEST_VERSION)}

\* The answers of the server to a command.
CliResponses ==
  {[ok |-> TRUE, text |-> <<"[", "]">>],
   [ok |-> TRUE, text |-> <<"x">>],
   [ok |-> FALSE, status |-> 404, data |-> NoData],
   JsonError(400, PyStr(<<"U", "n", "k", "n", "o", "w", "n", "C", "o", "m", "p", "u", "t", "e", "r">>), FALSE, <<>>)}

\* CommandLine.main(argv, schema)
MainOp ==
  /\ op = "init"
  /\ \E argv \in CommandLines : \E environ \in Environs :
     \E response \in CliResponses :
       DoneOn("main",
              [argv |-> argv, environ |-> environ, response |-> response],
              Main(argv, environ, <<"t">>, response),
              SchemaOf(SchemaAfterGetActions(SchemaItems, environ.version)))

\* The caller takes the result; the next operation can start.
Return ==
  /\ op # "init"
  /\ op' = "init"
  /\ inp' = <<>>
  /\ out' = <<>>
  /\ requests' = <<>>
  /\ mapping' = EmptyDict
  /\ prev' = <<>>
  /\ schema_now' = Schema

----------------------------------------------------------------------------
(* Properties of _encode_struct_fields.                                    *)

IsEncodeFields == op = "_encode_struct_fields"

FieldAbsent(i) == inp.fields[i][1] \notin DOMAIN inp.arguments
FieldRequired(i) == ~inp.fields[i][2].optional
FieldValue(i) == inp.arguments[inp.fields[i][1]]
\* What encoding the i-th field on its own gives.
FieldEncoding(i) ==
  EncodeArgument(inp.fields[i][2], inp.prefix \o inp.fields[i][1], FieldValue(i))

MissingRequired == {i \in 1..Len(inp.fields) : FieldRequired(i) /\ FieldAbsent(i)}
FailingSupplied ==
  {i \in 1..Len(inp.fields) : ~FieldAbsent(i) /\ FieldEncoding(i).tag = "err"}
Least(S) == CHOOSE i \in S : \A j \in S : i <= j

DeclaredNames == {inp.fields[i][1] : i \in 1..Len(inp.fields)}
\* The arguments no declared field consumes.
Leftover ==
  [n \in (DOMAIN inp.arguments) \ DeclaredNames |-> inp.arguments[n]]

\* C1 as claimed: whenever a declared field that is not optional is absent
\* from the arguments, the encoding fails with MissingParameter.
C1_MissingAlwaysReported ==
  (IsEncodeFields /\ MissingRequired # {}) =>
    (out.tag = "err" /\ out.msg = "Missing parameter")

\* C1: whenever a declared field that is not optional is absent from the
\* arguments, the encoding returns no wire map; it fails with
\* MissingParameter, naming the first such field in schema order, unless
\* the encoding of a supplied field declared before that field fails, and
\* then it fails with the error of the first field that does.
C1_MissingReportedUnlessEarlierFailure ==
  (IsEncodeFields /\ MissingRequired # {}) =>
    LET first == Least(MissingRequired)
        earlier == {i \in FailingSupplied : i < first}
    IN  /\ out.tag = "err"
        /\ earlier = {} => out = MissingParameter(inp.fields[first][1])
        /\ earlier # {} => out = FieldEncoding(Least(earlier))

\* A required field is absent after a supplied one, an undeclared argument
\* is there too, and MissingParameter is what is raised.
C1_Witness ==
  /\ IsEncodeFields
  /\ MissingRequired # {}
  /\ Least(MissingRequired) > 1
  /\ ~FieldAbsent(1)
  /\ Leftover # EmptyDict
  /\ out = MissingParameter(inp.fields[Least(MissingRequired)][1])

\* C2 as claimed: whenever the arguments hold a name that is no declared
\* field, the encoding fails with ExtraArguments, reporting exactly the
\* arguments left unconsumed.
C2_ExtraAlwaysReported ==
  (IsEncodeFields /\ Leftover # EmptyDict) =>
    (out.tag = "err" /\ out.msg = "Extra arguments" /\ out.left = Leftover)

\* C2: whenever the arguments hold a name that is no declared field, the
\* encoding fails; it fails with ExtraArguments, reporting exactly the
\* arguments left unconsumed, if and only if no required field is absent and
\* every supplied declared field encodes; otherwise the error met while the
\* declared fields were processed is raised.
C2_ExtraReportedAfterTheFields ==
  (IsEncodeFields /\ Leftover # EmptyDict) =>
    /\ out.tag = "err"
    /\ (MissingRequired = {} /\ FailingSupplied = {}) => out = ExtraArguments(Leftover)
    /\ (MissingRequired # {} \/ FailingSupplied # {}) => out.msg # "Extra arguments"

\* ExtraArguments is raised after a declared field was consumed: what it
\* reports is less than what the caller passed.
C2_Witness ==
  /\ IsEncodeFields
  /\ out = ExtraArguments(Leftover)
  /\ DOMAIN Leftover # DOMAIN inp.arguments

\* The types whose value is one wire field, and the values that are of the
\* declared type (a file path names a readable file).
ScalarKinds ==
  {"integer", "float", "raw_string", "enum", "unicode", "unicode_line",
   "unicode_title", "boolean", "date", "file"}
WellTyped(parameter, value) ==
  LET kind == Kind(parameter.type) IN
  \/ parameter.optional /\ value = parameter.default
  \/ kind \in {"integer", "float"} /\ value.k = "int"
  \/ kind \in {"raw_string", "enum", "unicode", "unicode_line", "unicode_title"}
       /\ value.k = "str"
  \/ kind = "boolean" /\ value.k = "bool"
  \/ kind = "date" /\ value.k \in {"str", "date"}
  \/ kind = "file" /\ value.k = "str" /\ value.s \in DOMAIN Files

\* The keys the claim expects: one per supplied field, but none for an
\* optional field whose value equals its default.
ExpectedKeys ==
  {inp.prefix \o inp.fields[i][1] :
     i \in {j \in 1..Len(inp.fields) :
              /\ ~FieldAbsent(j)
              /\ ~(inp.fields[j][2].optional
                   /\ PyEq(FieldValue(j), inp.fields[j][2].default))}}

ValidScalarCall ==
  /\ IsEncodeFields
  /\ \A i \in 1..Len(inp.fields) : Kind(inp.fields[i][2].type) \in ScalarKinds
  /\ MissingRequired = {}
  /\ Leftover = EmptyDict
  /\ \A i \in 1..Len(inp.fields) :
       ~FieldAbsent(i) => WellTyped(inp.fields[i][2], FieldValue(i))

\* C3 as claimed: for scalar fields, with every required field supplied, no
\* undeclared name and values of the declared types, the encoder returns a
\* map with exactly one key prefix+name per supplied field, none for an
\* optional field whose value equals its default.
C3_ExactKeys ==
  ValidScalarCall => (out.tag = "ok" /\ DOMAIN out.map = ExpectedKeys)

----------------------------------------------------------------------------
(* Properties of _encode_argument.                                         *)

IsEncodeArgument == op = "_encode_argument"

\* The pieces of a string between the commas no backslash escapes; an
\* escaped comma stays in its piece, without the backslash.
RECURSIVE SplitUnescaped(_, _)
SplitUnescaped(s, piece) ==
  IF s = <<>> THEN <<piece>>
  ELSE IF Len(s) >= 2 /\ s[1] = "\\" /\ s[2] = ","
  THEN SplitUnescaped(SubSeq(s, 3, Len(s)), Append(piece, ","))
  ELSE IF s[1] = "," THEN <<piece>> \o SplitUnescaped(Tail(s), <<>>)
  ELSE SplitUnescaped(Tail(s), Append(piece, s[1]))

\* The native list a comma-separated string stands for.
ListOfString(s) ==
  LET pieces == SplitUnescaped(s, <<>>) IN
  PyList([i \in 1..Len(pieces) |-> PyStr(Strip(pieces[i]))])

\* C5 as claimed: a comma-separated string handed to a list parameter is
\* split on unescaped commas only, its items trimmed, and encodes to the map
\* of the native list of those items.
C5_StringListLikeNativeList ==
  (IsEncodeArgument /\ Kind(inp.parameter.type) = "list" /\ inp.value.k = "str") =>
    out = EncodeArgument(inp.parameter, inp.name, ListOfString(inp.value.s))

\* The key/value container a "key=value,key=value" string stands for, when
\* every entry has its "=" and no key comes twice.
PairsOfString(s) == ParseCsvMappingSafely(s)
DictOfString(s) ==
  LET pairs == PairsOfString(s).pairs IN
  PyDict([i \in 1..Len(pairs) |->
            <<PyStr(Strip(pairs[i][1])), PyStr(Strip(pairs[i][2]))>>])
WellFormedMapping(s) ==
  /\ PairsOfString(s).tag = "ok"
  /\ LET pairs == PairsOfString(s).pairs IN
       \A i, j \in 1..Len(pairs) :
         i # j => Strip(pairs[i][1]) # Strip(pairs[j][1])

\* C6 as claimed: a "key=value,key=value" string handed to a mapping
\* parameter encodes to the map of the container holding those pairs.
C6_StringMappingLikeContainer ==
  (/\ IsEncodeArgument
   /\ Kind(inp.parameter.type) = "mapping"
   /\ inp.value.k = "str"
   /\ WellFormedMapping(inp.value.s)) =>
    out = EncodeArgument(inp.parameter, inp.name, DictOfString(inp.value.s))

UnicodeKinds == {"unicode", "unicode_line", "unicode_title"}

\* C7 as claimed: a unicode, unicode_line or unicode_title parameter given a
\* text string encodes to the one field name -> that string; a date-like
\* value goes to the date encoding.
C7_UnicodeEncodesText ==
  (IsEncodeArgument /\ Kind(inp.parameter.type) \in UnicodeKinds) =>
    /\ inp.value.k = "str" => out = Ok(Single(inp.name, inp.value))
    /\ inp.value.k = "date" => out = EncodeDate(inp.parameter, inp.name, inp.value)

\* C8 as claimed: a data parameter given the path of a readable file encodes
\* to one field under its name, the base64 of the file's contents without a
\* file name in front.
C8_DataEncodesContents ==
  (/\ IsEncodeArgument
   /\ Kind(inp.parameter.type) = "data"
   /\ inp.value.k = "str"
   /\ inp.value.s \in DOMAIN Files) =>
    /\ out.tag = "ok"
    /\ DOMAIN out.map = {inp.name}
    /\ out.map[inp.name].s = B64Encode(Files[inp.value.s])

----------------------------------------------------------------------------
(* Properties of the calls.                                                *)

IsCall == op \in {"call", "method", "call_arbitrary"}
Sent == IsCall /\ requests # <<>>

\* The values the caller of the generated method supplied, by name.
SuppliedByName ==
  LET names == MakeApiCaller(Schema[inp.method][inp.api.version]).positional_parameters
  IN  [n \in {names[i] : i \in 1..Len(inp.args)} \cup DOMAIN inp.kwargs |->
         IF n \in DOMAIN inp.kwargs THEN inp.kwargs[n]
         ELSE inp.args[CHOOSE i \in 1..Len(inp.args) : names[i] = n]]

\* The method is called as the claim says: the required arguments by
\* position, optional ones by keyword.
CalledAsDeclared ==
  LET parameters == Schema[inp.method][inp.api.version].parameters
      required == SelectSeq(parameters, LAMBDA x : ~x.optional)
      optional == SelectSeq(parameters, LAMBDA x : x.optional)
  IN  /\ op = "method"
      /\ Len(inp.args) = Len(required)
      /\ DOMAIN inp.kwargs \subseteq {optional[i].name : i \in 1..Len(optional)}

NameB == <<"b">>
BooleanAction == <<"G", "e", "t">>

\* C4: the generated method of an action, called with the required
\* arguments by position and any optional ones by keyword, sends the
\* request, and gives the outcome, of API.call with the supplied values by
\* name; the optional boolean b of Get (default false) is not in the request
\* when left out or false, and is there as "true" when true.
C4_MethodLikeCall ==
  CalledAsDeclared =>
    LET same == Call(inp.api, inp.method, SuppliedByName, inp.timestamp, inp.response)
    IN  /\ requests = same.requests
        /\ out = same.out
        /\ (inp.method = BooleanAction /\ requests # <<>>) =>
             /\ (NameB \notin DOMAIN inp.kwargs \/ inp.kwargs[NameB] = PyBool(FALSE))
                  => NameB \notin DOMAIN mapping
             /\ (NameB \in DOMAIN inp.kwargs /\ inp.kwargs[NameB] = PyBool(TRUE))
                  => (NameB \in DOMAIN mapping
                      /\ mapping[NameB] = PyStr(<<"t", "r", "u", "e">>))

\* The method of Get is passed b = false and a request goes out.
C4_Witness ==
  /\ CalledAsDeclared
  /\ inp.method = BooleanAction
  /\ NameB \in DOMAIN inp.kwargs
  /\ inp.kwargs[NameB] = PyBool(FALSE)
  /\ requests # <<>>

\* The caller's params of a call_arbitrary, and the fixed fields of the
\* call.
FixedNames ==
  DOMAIN FixedFields(<<>>, <<>>, <<>>, <<>>)
ExpectedFixed ==
  FixedFields(inp.api.access_key, inp.method, inp.timestamp, inp.api.query_version)

\* The pairs of a canonical string: the text between the "&", cut at the
\* first "=".
Pieces(text, sep) ==
  LET cuts == {i \in 1..Len(text) : text[i] = sep}
      cut(j) == IF j = 0 THEN 0
                ELSE IF j > Cardinality(cuts) THEN Len(text) + 1
                ELSE CHOOSE i \in cuts : Cardinality({c \in cuts : c < i}) = j - 1
  IN  [j \in 1..(Cardinality(cuts) + 1) |-> SubSeq(text, cut(j - 1) + 1, cut(j) - 1)]
PairsOf(text) ==
  LET parts == Pieces(text, "&") IN
  [i \in 1..Len(parts) |-> LET cut == Partition(parts[i], "=")
                           IN  <<cut[1], cut[3]>>]
SentPairs == PairsOf(requests[1].body.params)
Range(seq) == {seq[i] : i \in 1..Len(seq)}
EncodedPair(key, value) == <<Quote(key, {"~"}), Quote(value.s, {"~"})>>

\* C9: the parameters a call signs and sends are the six fixed fields with
\* their values (access key, action name, "2", "HmacSHA256", the call's
\* timestamp, the version run_query is given) whatever the caller's params
\* hold, and every other param of the caller unchanged; the string that is
\* signed holds the parameters that are sent.
C9_FixedFieldsOverride ==
  Sent =>
    /\ \A key \in FixedNames :
         key \in DOMAIN mapping /\ mapping[key] = ExpectedFixed[key]
    /\ op = "call_arbitrary" =>
         /\ DOMAIN mapping = DOMAIN inp.arguments \cup FixedNames
         /\ \A key \in DOMAIN inp.arguments \ FixedNames :
              mapping[key] = inp.arguments[key]
    /\ Range(SentPairs) = {EncodedPair(key, mapping[key]) : key \in DOMAIN mapping}
    /\ Len(SentPairs) = Cardinality(DOMAIN mapping)
    /\ LET to_sign == requests[1].body.signature.hmac_sha256[2]
           lines == Pieces(to_sign, "\n")
       IN  lines[Len(lines)] = requests[1].body.params

NameAction == <<"a", "c", "t", "i", "o", "n">>

\* The caller passes an "action" of its own and another param, and the
\* request goes out.
C9_Witness ==
  /\ Sent
  /\ op = "call_arbitrary"
  /\ NameAction \in DOMAIN inp.arguments
  /\ inp.arguments[NameAction] # PyStr(inp.method)
  /\ DOMAIN inp.arguments # {NameAction}

PairLessEq(p, q) ==
  StrLess(p[1], q[1]) \/ (p[1] = q[1] /\ ~StrLess(q[2], p[2]))

\* C10 as claimed: the canonical string lists the percent-encoded pairs in
\* the order of the (encoded key, encoded value) pairs.
C10_SortedByEncodedPairs ==
  Sent => \A i \in 1..(Len(SentPairs) - 1) : PairLessEq(SentPairs[i], SentPairs[i + 1])

\* How many keys of the parameters come before a key, as strings before
\* percent-encoding.
RawRank(key) == Cardinality({other \in DOMAIN mapping : StrLess(other, key)})
OnlyUnreserved(text) == Quote(text, {"~"}) = text

\* C10: the canonical string lists the percent-encoded key=value pairs in
\* the order of the keys as they are before percent-encoding; that is the
\* order of the encoded pairs when no key holds a character that
\* percent-encoding rewrites.
C10_SortedByRawKeys ==
  Sent =>
    /\ Len(SentPairs) = Cardinality(DOMAIN mapping)
    /\ \A key \in DOMAIN mapping :
         SentPairs[RawRank(key) + 1] = EncodedPair(key, mapping[key])
    /\ (\A key \in DOMAIN mapping : OnlyUnreserved(key)) =>
         \A i \in 1..(Len(SentPairs) - 1) : PairLessEq(SentPairs[i], SentPairs[i + 1])

\* A request goes out with two keys that percent-encoding puts in the
\* other order.
C10_Witness ==
  /\ Sent
  /\ {<<"a", "-">>, <<"a", "/">>} \subseteq DOMAIN mapping

\* The encoding of the arguments of an API.call of an action the API's
\* version has: what _encode_struct_fields makes of the keyword arguments
\* under the parameters of the action.
IsApiCall ==
  /\ op = "call"
  /\ inp.method \in DOMAIN Schema
  /\ inp.api.version \in DOMAIN Schema[inp.method]
CallFields ==
  [i \in 1..Len(Schema[inp.method][inp.api.version].parameters) |->
     <<Schema[inp.method][inp.api.version].parameters[i].name,
       Schema[inp.method][inp.api.version].parameters[i]>>]
CallEncoding == EncodeStructFields(CallFields, inp.kwargs, <<>>)
EncodingFails == IsApiCall /\ CallEncoding.tag = "err"

\* C25: when the encoding of the arguments of an API.call fails (a missing
\* parameter, extra arguments, an unreadable file, a value that cannot be
\* encoded), the call ends with that error raised to its caller and with no
\* request handed to the transport.
C25_EncodingBeforeSending ==
  EncodingFails => (out = CallEncoding /\ requests = <<>>)

\* An API.call of Add with a file that does not exist: the error of the
\* read is raised and nothing was sent.
C25_Witness ==
  /\ EncodingFails
  /\ inp.method = <<"A", "d", "d">>
  /\ out.tag = "err" /\ out.err = "FileNotFoundError"
  /\ requests = <<>>

\* The second of two calls of call_arbitrary with the same dict, and the
\* names of the parameters a request holds.
SecondCall == op = "call_arbitrary_again"
BothSent == SecondCall /\ prev.requests # <<>> /\ requests # <<>>
SentNames(request) ==
  {PairsOf(request.body.params)[i][1] : i \in DOMAIN PairsOf(request.body.params)}

\* C26: run_query writes the six fixed fields into the dict the caller
\* passed; when call_arbitrary is called again with that dict, the request
\* of the second call holds the parameter names of the first one's, and
\* each fixed field once, with the values of the second call.
C26_SecondCallOwnFields ==
  SecondCall =>
    /\ inp.arguments = prev.mapping
    /\ DOMAIN prev.mapping = DOMAIN prev.inp.arguments \cup FixedNames
    /\ \A key \in FixedNames :
         prev.mapping[key] = FixedFields(prev.inp.api.access_key, prev.inp.method,
                                         prev.inp.timestamp, prev.inp.api.query_version)[key]
    /\ BothSent =>
         /\ SentNames(requests[1]) = SentNames(prev.requests[1])
         /\ \A key \in FixedNames :
              /\ Cardinality({i \in DOMAIN SentPairs : SentPairs[i][1] = key}) = 1
              /\ EncodedPair(key, ExpectedFixed[key]) \in Range(SentPairs)

\* Both calls sent a request; the caller's dict held a parameter of its
\* own, and the second call names another action at another time.
C26_Witness ==
  /\ BothSent
  /\ DOMAIN prev.inp.arguments \ FixedNames # {}
  /\ inp.method # prev.inp.method
  /\ inp.timestamp # prev.inp.timestamp

----------------------------------------------------------------------------
(* Properties of run_query.                                               *)

SignRun == op = "run_query"
HttpScheme ==
  Lower(inp.parts.scheme) \in {<<"h", "t", "t", "p">>, <<"h", "t", "t", "p", "s">>}

\* What the claim expects of a URI scheme://host[:port][path], the port
\* being a number.
ExpectedHost ==
  IF inp.parts.port = <<>> THEN inp.parts.host
  ELSE inp.parts.host \o <<":">> \o IntStr(ToInt(inp.parts.port))
ExpectedPath == IF inp.parts.path = <<>> THEN <<"/">> ELSE inp.parts.path
ExpectedUrl == IF inp.parts.path = <<>> THEN inp.uri \o <<"/">> ELSE inp.uri
SignedString == requests[1].body.signature.hmac_sha256[2]

\* C11: for an http or https URI the string run_query signs is the four
\* lines "POST", signed host, path and canonical parameter string joined by
\* LF; the signed host is the host when the URI has no port and host:port
\* when it has one; the path is "/" when the URI's path is empty, and then
\* the request goes to the URI with "/" appended.
C11_StringToSign ==
  (SignRun /\ HttpScheme) =>
    /\ requests # <<>>
    /\ SignedString =
         Join(<<<<"P", "O", "S", "T">>, ExpectedHost, ExpectedPath,
                requests[1].body.params>>, <<"\n">>)
    /\ Len(Pieces(SignedString, "\n")) = 4
    /\ requests[1].body.params = SignedParams(mapping)
    /\ requests[1].url = ExpectedUrl
    /\ requests[1].headers.Host = ExpectedHost

\* A URI with a port and no path is signed and sent.
C11_Witness ==
  /\ SignRun
  /\ HttpScheme
  /\ inp.parts.port # <<>>
  /\ inp.parts.path = <<>>
  /\ requests # <<>>

\* C12: for a URI whose scheme is not http or https run_query fails with
\* the error of a malformed URI (parse's SyntaxError) and hands nothing to
\* the transport.
C12_MalformedUri ==
  (SignRun /\ ~HttpScheme) =>
    /\ out.tag = "err"
    /\ out.err = "SyntaxError"
    /\ requests = <<>>

\* run_query was given a URI of scheme httpx and failed.
C12_Witness ==
  /\ SignRun
  /\ inp.parts.scheme = <<"h", "t", "t", "p", "x">>
  /\ out.tag = "err"
  /\ requests = <<>>

\* This run has the inputs of the run before it: the same keys, action,
\* URI, version and timestamp, and the same params, or the very dict the
\* run before was handed, as that run left it.
SameInputs ==
  /\ prev # <<>>
  /\ inp.access_key = prev.inp.access_key
  /\ inp.secret_key = prev.inp.secret_key
  /\ inp.action = prev.inp.action
  /\ inp.uri = prev.inp.uri
  /\ inp.version = prev.inp.version
  /\ inp.timestamp = prev.inp.timestamp
  /\ \/ inp.params = prev.inp.params
     \/ inp.params =
          DictUpdate(prev.inp.params,
                     FixedFields(prev.inp.access_key, prev.inp.action,
                                 prev.inp.timestamp, prev.inp.version))

NameTimestamp == <<"t", "i", "m", "e", "s", "t", "a", "m", "p">>

WordBoundary(s, j) ==
  /\ j > 1
  /\ IsUpper(s[j])
  /\ \/ IsLower(s[j - 1]) \/ IsDigit(s[j - 1])
     \/ IsUpper(s[j - 1]) /\ j < Len(s) /\ IsLower(s[j + 1])

RECURSIVE LocalNameFrom(_, _)
LocalNameFrom(s, j) ==
  IF j > Len(s) THEN <<>>
  ELSE (IF WordBoundary(s, j) THEN <<"_">> ELSE <<>>)
         \o Lower(<<s[j]>>) \o LocalNameFrom(s, j + 1)

\* C14: the local name of a wire name of letters and digits is the name
\* with "_" put before each capitalized word boundary, in lower case;
\* GetComputers, ImportGPGKey and CSVExport give get_computers,
\* import_gpg_key and csv_export.
C14_LocalName ==
  op = "_lowercase_api_name" =>
    /\ out = LocalNameFrom(inp.name, 1)
    /\ inp.name = <<"G", "e", "t", "C", "o", "m", "p", "u", "t", "e", "r", "s">>
         => out = <<"g", "e", "t", "_", "c", "o", "m", "p", "u", "t", "e", "r", "s">>
    /\ inp.name = <<"I", "m", "p", "o", "r", "t", "G", "P", "G", "K", "e", "y">>
         => out = <<"i", "m", "p", "o", "r", "t", "_", "g", "p", "g", "_", "k", "e", "y">>
    /\ inp.name = <<"C", "S", "V", "E", "x", "p", "o", "r", "t">>
         => out = <<"c", "s", "v", "_", "e", "x", "p", "o", "r", "t">>

\* A name with a digit before an upper-case letter and an upper-case run
\* before a word got both its underscores.
C14_Witness ==
  /\ op = "_lowercase_api_name"
  /\ inp.name = <<"1", "B", "C", "a">>
  /\ out = <<"1", "_", "b", "_", "c", "a">>

\* The actions of the schema that have an entry for the version, and the
\* method each of them is reached by on the command line.
Supported ==
  {inp.schema[i].name :
     i \in {j \in 1..Len(inp.schema) : inp.version \in DOMAIN inp.schema[j].versions}}
MethodOf(name) ==
  IF name \in DOMAIN OverriddenApis THEN OverriddenApis[name].method
  ELSE LowercaseApiName(name)
NameClash ==
  \/ \E a, b \in Supported : a # b /\ LowercaseApiName(a) = LowercaseApiName(b)
  \/ \E a \in Supported : LowercaseApiName(a) \in ExistingAttributes

\* C15 as claimed: building the action set never fails because an action
\* has no entry for the version (api_factory fails for a name clash only);
\* the result holds every action that has an entry for the version, the
\* overridden ones too, and no action that has none.
C15_UnsupportedActionsAbsent ==
  /\ op = "api_factory" =>
       /\ out.tag = "err" => NameClash
       /\ out.tag = "ok" =>
            /\ DOMAIN out.methods = {LowercaseApiName(n) : n \in Supported}
            /\ \A k \in DOMAIN out.methods : out.methods[k] \in Supported
  /\ op = "get_actions" =>
       /\ out.tag = "ok"
       /\ {out.actions[i].method_name : i \in 1..Len(out.actions)}
            = {MethodOf(n) : n \in Supported} \cup {<<"s", "s", "h">>}

\* C16 as claimed: api_factory fails whenever two supported actions derive
\* the same local name or a supported action derives the name of a method
\* the class already has.
C16_ClashRejected ==
  (op = "api_factory" /\ NameClash) => out.tag = "err"

----------------------------------------------------------------------------
(* Properties of the error taxonomy.                                       *)

\* A run_query answered with a server error, and one whose body holds a
\* code and a message and no errors list.
ErrorRun == op = "run_query_error"
SimpleError ==
  /\ ErrorRun
  /\ ~inp.response.ok
  /\ inp.response.data.has_error /\ inp.response.data.error # PyNone
  /\ inp.response.data.has_message
  /\ ~inp.response.data.has_errors
ReportedCode == inp.response.data.error.s

\* The name of the kind of a code: the code, ending in "Error".
ErrorSuffix == <<"E", "r", "r", "o", "r">>
HasErrorSuffix(code) ==
  Len(code) >= 5 /\ SubSeq(code, Len(code) - 4, Len(code)) = ErrorSuffix
KindName(code) == IF HasErrorSuffix(code) THEN code ELSE code \o ErrorSuffix

\* The call raised an error of a kind of the taxonomy with this name.
IsRaised == out.tag = "err" /\ out.err = "HTTPError"
ResolvesTo(name) ==
  IsRaised /\ out.class.kind \in {"schema", "builtin"} /\ out.class.name = name

\* C17 as stated: for every declared error code C, a server error reporting
\* C and one reporting C followed by "Error" are both raised as the kind
\* named C normalized to end in "Error".
C17_BothSpellingsResolve ==
  SimpleError =>
    \A code \in inp.codes :
      ReportedCode \in {code, code \o ErrorSuffix} => ResolvesTo(KindName(code))

\* C17, amended: for every declared error code C the taxonomy holds a kind
\* named C normalized to end in "Error" under that name, normalizing the
\* name again changes nothing, and a server error reporting C or the
\* normalized name of C is raised as that kind.
C17_DeclaredCodeResolves ==
  ErrorRun =>
    \A code \in inp.codes :
      /\ KindName(code) \in DOMAIN ErrorsOf(inp.codes)
      /\ ErrorsOf(inp.codes)[KindName(code)].name = KindName(code)
      /\ GetErrorCodeName(code) = KindName(code)
      /\ GetErrorCodeName(GetErrorCodeName(code)) = GetErrorCodeName(code)
      /\ SimpleError /\ ReportedCode \in {code, KindName(code)}
           => ResolvesTo(KindName(code))

\* A schema declaring UnknownComputer, and a server error reporting
\* UnknownComputerError raised as the kind of that name.
C17_Witness ==
  /\ SimpleError
  /\ <<"U", "n", "k", "n", "o", "w", "n", "C", "o", "m", "p", "u", "t", "e", "r">> \in inp.codes
  /\ ReportedCode = <<"U", "n", "k", "n", "o", "w", "n", "C", "o", "m", "p", "u", "t", "e", "r", "E", "r", "r", "o", "r">>
  /\ ResolvesTo(<<"U", "n", "k", "n", "o", "w", "n", "C", "o", "m", "p", "u", "t", "e", "r", "E", "r", "r", "o", "r">>)

\* The codes of the built-in kinds, and an answer reporting a code and a
\* message whose errors list, if it is a MultiError, holds entries with a
\* code (or null) and a message.
BuiltinCodes ==
  {<<"U", "n", "a", "u", "t", "h", "o", "r", "i", "s", "e", "d">>, <<"S", "i", "g", "n", "a", "t", "u", "r", "e", "D", "o", "e", "s", "N", "o", "t", "M", "a", "t", "c", "h">>, <<"A", "u", "t", "h", "F", "a", "i", "l", "u", "r", "e">>,
   <<"I", "n", "v", "a", "l", "i", "d", "C", "r", "e", "d", "e", "n", "t", "i", "a", "l", "s">>, <<"M", "u", "l", "t", "i", "E", "r", "r", "o", "r">>}
WellFormedEntry(entry) ==
  entry.has_error /\ entry.has_message /\ entry.error # PyStr(<<"M", "u", "l", "t", "i", "E", "r", "r", "o", "r">>)
WellFormedError ==
  /\ ErrorRun
  /\ ~inp.response.ok
  /\ inp.response.data.has_error /\ inp.response.data.error # PyNone
  /\ inp.response.data.has_message
  /\ ReportedCode = <<"M", "u", "l", "t", "i", "E", "r", "r", "o", "r">> =>
       /\ inp.response.data.has_errors
       /\ \A i \in 1..Len(inp.response.data.errors) :
            WellFormedEntry(inp.response.data.errors[i])
  /\ ReportedCode # <<"M", "u", "l", "t", "i", "E", "r", "r", "o", "r">> => ~inp.response.data.has_errors

\* C18: whatever the schema declares, a server error whose code is the name
\* of one of the five built-in kinds is raised as that built-in kind, the
\* one named by the normalized code.
C18_BuiltinKindRaised ==
  WellFormedError /\ ReportedCode \in BuiltinCodes =>
    IsRaised /\ out.class = [name |-> KindName(ReportedCode), kind |-> "builtin"]

\* A MultiError answer whose errors list holds entries with a message and a
\* code, a null code or no code, or empty entries.
SubEntriesOf == inp.response.data.errors
MultiErrorRun ==
  /\ ErrorRun
  /\ ~inp.response.ok
  /\ inp.response.data.has_error /\ inp.response.data.error = PyStr(<<"M", "u", "l", "t", "i", "E", "r", "r", "o", "r">>)
  /\ inp.response.data.has_message
  /\ inp.response.data.has_errors
  /\ \A i \in 1..Len(SubEntriesOf) :
       /\ SubEntriesOf[i] = NoData \/ SubEntriesOf[i].has_message
       /\ SubEntriesOf[i].error # PyStr(<<"M", "u", "l", "t", "i", "E", "r", "r", "o", "r">>)

\* The kinds the taxonomy is to hold for a schema declaring these codes, by
\* name, and whether a sub-error is of the kind its entry asks for.
RegisteredNames(codes) == {KindName(code) : code \in codes \cup BuiltinCodes}
HasCode(entry) == entry.has_error /\ entry.error # PyNone
OfTheKindOf(sub_error, entry) ==
  /\ sub_error.err = "HTTPError"
  /\ IF HasCode(entry) /\ KindName(entry.error.s) \in RegisteredNames(inp.codes)
     THEN /\ sub_error.class.kind \in {"schema", "builtin"}
          /\ sub_error.class.name = KindName(entry.error.s)
     ELSE sub_error.class = APIErrorClass

\* C19: the MultiError raised for such an answer holds one sub-error per
\* entry of the errors list, in the order of the list; the sub-error is of
\* the kind registered for the normalized code of its entry, and a generic
\* API error when that code is not registered or the entry has none.
C19_SubErrorPerEntry ==
  MultiErrorRun =>
    /\ IsRaised
    /\ out.class = MultiErrorClass
    /\ Len(out.errors) = Len(SubEntriesOf)
    /\ \A i \in 1..Len(SubEntriesOf) : OfTheKindOf(out.errors[i], SubEntriesOf[i])

----------------------------------------------------------------------------
(* Properties of the transport.                                            *)

\* The kind an answer is raised as: the class the taxonomy of the module
\* holds under the normalized name of the code the body reports, and the
\* generic HTTPError when the body reports no code or the taxonomy holds
\* no such class.
AnswerReportsCode ==
  inp.response.data.has_error /\ inp.response.data.error # PyNone
KindRaisedFor ==
  IF AnswerReportsCode /\ KindName(inp.response.data.error.s) \in DOMAIN ErrorClasses
  THEN ErrorClasses[KindName(inp.response.data.error.s)]
  ELSE HTTPErrorClass

----------------------------------------------------------------------------
(* Properties of the command line.                                         *)

\* C23: a list of non-empty items, written as a string with its items
\* joined by commas and the commas inside an item written as
\* backslash-comma, is parsed back by the list parser of the command line
\* (_parse_csv_list_safely, and parse_list over it) into the same list.
C23_ListRoundTrip ==
  op = "parse_list" =>
    /\ ParseCsvListSafely(inp.value) = inp.items
    /\ out = Parsed(PyList([i \in 1..Len(inp.items) |-> PyStr(inp.items[i])]))


\* The command line that was run, as parser.parse_known_args reads it.
MainParsed == ParseKnownArgs(inp.argv, NoMainArgs, <<>>)

\* The exit status of the process main was run in: the code exit was
\* called with, 1 when an exception left main uncaught, 0 when main
\* returned without calling exit.
ExitStatus ==
  IF out.raised # "" THEN 1 ELSE IF out.exit = -1 THEN 0 ELSE out.exit

\* "call ACTION_NAME key=value..." was run, no help asked for, with the key,
\* the secret and an http URI available and a server that answers the
\* request with a JSON result.
ArbitraryCallRun ==
  /\ op = "main"
  /\ MainParsed.tag = "ok"
  /\ ~MainParsed.args.help
  /\ MainParsed.args.action = PyStr(<<"c", "a", "l", "l">>)
  /\ ParseCallArgs(MainParsed.argv).tag = "ok"
  /\ \A i \in 2..Len(MainParsed.argv) : Partition(MainParsed.argv[i], "=")[2] # <<>>
  /\ GetApi(MainParsed.args, inp.environ, inp.environ.version).tag = "ok"
  /\ GetApi(MainParsed.args, inp.environ, inp.environ.version).api.uri = PlainUri
  /\ inp.response = [ok |-> TRUE, text |-> <<"[", "]">>]

\* C22: for "call ACTION_NAME key=value..." with credentials and URI
\* available and a transport that succeeds, main sends one request, writes
\* the result to stdout and finishes without a non-zero exit and without
\* an uncaught error, with and without --json.
C22_ArbitraryCallFinishes ==
  ArbitraryCallRun =>
    /\ Len(requests) = 1
    /\ <<<<"a", "c", "t", "i", "o", "n">>, MainParsed.argv[1]>> \in Range(SentPairs)
    /\ out.stdout = "result"
    /\ out.raised = ""
    /\ out.exit \in {-1, 0}

\* The server answered a request with an error.
ServerError == requests # <<>> /\ ~inp.response.ok

\* C21: main exits with 0 when it displayed help or wrote a result, with 1
\* on every usage or runtime error (a message on stderr that is no answer
\* of the server), and with 2 exactly when the server returned an error.
C21_ExitCodes ==
  op = "main" =>
    /\ ExitStatus \in {0, 1, 2}
    /\ out.stdout # "" => ExitStatus = 0
    /\ (out.stderr # "" /\ ~ServerError) => ExitStatus = 1
    /\ ExitStatus = 2 <=> ServerError
----------------------------------------------------------------------------
(* Properties of the schema.                                               *)

\* The schema the operation that ran was handed: the argument of
\* api_factory and get_actions, the schema of the module for the calls.
GivenSchema ==
  IF op \in {"api_factory", "get_actions"} THEN inp.schema ELSE Schema
ReadsSchema == op \in {"api_factory", "get_actions", "call", "method"}

\* get_actions ran its override step for ImportGPGKey.
OverrideRun ==
  /\ op = "get_actions"
  /\ out.tag = "ok"
  /\ \E i \in 1..Len(inp.schema) :
       /\ inp.schema[i].name = <<"I", "m", "p", "o", "r", "t", "G", "P", "G", "K", "e", "y">>
       /\ inp.version \in DOMAIN inp.schema[i].versions

\* C24: api_factory, API.call, the generated methods and get_actions leave
\* the schema as it was (so does every sequence of them); the override
\* step of get_actions patches a copy, and the schema's entry of the
\* overridden action keeps its parameters and its doc.
C24_SchemaUnchanged ==
  ReadsSchema => schema_now = GivenSchema

\* The override step ran: the action get_actions returns for ImportGPGKey
\* takes "filename", and the schema handed in has "material".
C24_Witness ==
  /\ OverrideRun
  /\ \E i \in 1..Len(out.actions) :
       /\ out.actions[i].method_name = OverriddenApis[<<"I", "m", "p", "o", "r", "t", "G", "P", "G", "K", "e", "y">>].method
       /\ out.actions[i].required_args = <<<<"n", "a", "m", "e">>, <<"f", "i", "l", "e", "n", "a", "m", "e">>>>
  /\ \E i \in 1..Len(inp.schema) :
       /\ inp.schema[i].name = <<"I", "m", "p", "o", "r", "t", "G", "P", "G", "K", "e", "y">>
       /\ inp.schema[i].versions[inp.version].parameters[2].name = <<"m", "a", "t", "e", "r", "i", "a", "l">>

----------------------------------------------------------------------------
\* The encoder on its own.
Next == EncodeStructFieldsOp \/ EncodeArgumentOp \/ Return

Spec == Init /\ [][Next]_vars

\* Calls through the API object.
NextCall == CallOp \/ MethodOp \/ CallArbitraryOp \/ Return

SpecCall == Init /\ [][NextCall]_vars

\* run_query on its own.
NextSign == RunQueryOp \/ Return

SpecSign == Init /\ [][NextSign]_vars

\* The registry: local names and the sets of actions built from a schema.
NextFactory == LowercaseApiNameOp \/ ApiFactoryOp \/ GetActionsOp \/ Return

SpecFactory == Init /\ [][NextFactory]_vars

\* The error taxonomy alone.
NextErrors == RunQueryErrorOp \/ Return

SpecErrors == Init /\ [][NextErrors]_vars

\* Two calls of call_arbitrary in a row with the same dict.
NextTwice == CallArbitraryOp \/ CallArbitraryAgainOp \/ Return

SpecTwice == Init /\ [][NextTwice]_vars

\* The operations that are handed the schema.
NextSchema == ApiFactoryOp \/ GetActionsOp \/ CallOp \/ MethodOp \/ Return

SpecSchema == Init /\ [][NextSchema]_vars

\* The command line.
NextCli == ParseListOp \/ MainOp \/ Return

SpecCli == Init /\ [][NextCli]_vars

====
